---- MODULE Spec2Model ----
(***************************************************************************)
(* A model of the bidirectional file synchronisation engine of             *)
(* sync-code-dotfiles: the pattern matcher, the path mapper, the remote    *)
(* repository client, the conflict resolver and the pull / push            *)
(* orchestrator (sync.ts, github.ts, config.ts).                           *)
(*                                                                         *)
(* Strings of the program are sequences of one-character strings, so that  *)
(* the regular expressions and path operations of the code are computed,   *)
(* not assumed.                                                            *)
(***************************************************************************)
EXTENDS Integers, Sequences, FiniteSets, TLC

----------------------------------------------------------------------------
(* Generic string helpers (JavaScript String methods).                      *)

\* String.prototype.startsWith
StartsWith(s, p) == Len(p) <= Len(s) /\ SubSeq(s, 1, Len(p)) = p

\* String.prototype.endsWith
EndsWith(s, p) == Len(p) <= Len(s) /\ SubSeq(s, Len(s) - Len(p) + 1, Len(s)) = p

\* The 1-based positions at which sub occurs in s.
Occurrences(s, sub) ==
    {k \in 1..(Len(s) - Len(sub) + 1) : SubSeq(s, k, k + Len(sub) - 1) = sub}

\* String.prototype.includes
Includes(s, sub) == Occurrences(s, sub) # {}

Min(S) == CHOOSE x \in S : \A y \in S : x <= y
Max(S) == CHOOSE x \in S : \A y \in S : x >= y

\* String.prototype.indexOf, 1-based; 0 when sub does not occur.
IndexOf(s, sub) == IF Includes(s, sub) THEN Min(Occurrences(s, sub)) ELSE 0

\* String.prototype.lastIndexOf, 1-based; 0 when sub does not occur.
LastIndexOf(s, sub) == IF Includes(s, sub) THEN Max(Occurrences(s, sub)) ELSE 0

\* The characters of s from position k on.
From(s, k) == SubSeq(s, k, Len(s))

RECURSIVE SplitOn(_, _)
\* String.prototype.split on a one-character separator.
SplitOn(s, c) ==
    LET k == IndexOf(s, <<c>>)
    IN  IF k = 0 THEN <<s>>
        ELSE <<SubSeq(s, 1, k - 1)>> \o SplitOn(From(s, k + 1), c)

RECURSIVE JoinWith(_, _)
\* Array.prototype.join with a one-character separator.
JoinWith(segs, c) ==
    IF segs = <<>> THEN <<>>
    ELSE IF Len(segs) = 1 THEN segs[1]
    ELSE segs[1] \o <<c>> \o JoinWith(Tail(segs), c)

\* The code units of the characters the model uses, in ascending order
\* (the order in which a directory listing names its entries).
CharOrder == <<".", "/", ":", "?", "*", "a", "b", "c", "d", "e", "g", "h", "i",
               "j", "l", "m", "n", "o", "p", "r", "s", "t", "u", "w", "x">>

CharRank(c) == CHOOSE k \in 1..Len(CharOrder) : CharOrder[k] = c

RECURSIVE StrLess(_, _)
\* a < b as JavaScript / byte-wise strings.
StrLess(a, b) ==
    IF b = <<>> THEN FALSE
    ELSE IF a = <<>> THEN TRUE
    ELSE IF a[1] = b[1] THEN StrLess(Tail(a), Tail(b))
    ELSE CharRank(a[1]) < CharRank(b[1])

RECURSIVE SortStrings(_)
\* The strings of the finite set S in ascending order.
SortStrings(S) ==
    IF S = {} THEN <<>>
    ELSE LET m == CHOOSE x \in S : \A y \in S \ {x} : StrLess(x, y)
         IN  <<m>> \o SortStrings(S \ {m})

\* The set of elements of a sequence.
Range(q) == {q[k] : k \in 1..Len(q)}

----------------------------------------------------------------------------
(* Program constants.                                                       *)

\* sync.ts: const CURSOR_DIR = '.cursor'
CURSOR_DIR == <<".", "c", "u", "r", "s", "o", "r">>

\* The distinguished rules file name used by mapToLocalPath and
\* collectLocalFiles.
RULES_FILE == <<".", "c", "u", "r", "s", "o", "r", "r", "u", "l", "e", "s">>

PatRules == <<"r", "u", "l", "e", "s", "/", "*", "*">>
PatMcp == <<"m", "c", "p", ".", "j", "s", "o", "n">>
PatPrompts == <<"p", "r", "o", "m", "p", "t", "s", "/", "*", "*">>

\* config.ts getConfig: the default of filesToSync.
DefaultFilesToSync == <<RULES_FILE, PatRules, PatMcp, PatPrompts>>

----------------------------------------------------------------------------
(* Pattern matcher (github.ts matchPattern, sync.ts matchPattern).          *)

\* pattern.replace(/\./g, '\\.'): every dot becomes the escaped-dot unit.
EscapeDots(p) == [k \in 1..Len(p) |-> IF p[k] = "." THEN "\\." ELSE p[k]]

RECURSIVE MarkGlobstar(_)
\* .replace(/\*\*/g, '{{GLOBSTAR}}'): left to right, non-overlapping.
MarkGlobstar(p) ==
    IF p = <<>> THEN <<>>
    ELSE IF Len(p) >= 2 /\ p[1] = "*" /\ p[2] = "*"
         THEN <<"{{GLOBSTAR}}">> \o MarkGlobstar(From(p, 3))
    ELSE <<p[1]>> \o MarkGlobstar(Tail(p))

\* .replace(/\*/g, '[^/]*')
ExpandStar(p) == [k \in 1..Len(p) |-> IF p[k] = "*" THEN "[^/]*" ELSE p[k]]

\* .replace(/\?/g, '.')
ExpandQuestion(p) == [k \in 1..Len(p) |-> IF p[k] = "?" THEN "." ELSE p[k]]

\* .replace(/{{GLOBSTAR}}/g, '.*')
ExpandGlobstar(p) ==
    [k \in 1..Len(p) |-> IF p[k] = "{{GLOBSTAR}}" THEN ".*" ELSE p[k]]

\* The regular expression the five replacements produce, as a sequence of
\* units: a literal character, "\\." (a literal dot), "." (any character),
\* "[^/]*" and ".*"; a "+" of the pattern stays as it is.
GlobToRegex(pattern) ==
    ExpandGlobstar(ExpandQuestion(ExpandStar(MarkGlobstar(EscapeDots(pattern)))))

\* Whether one character is matched by a one-character unit.
AtomMatches(unit, ch) ==
    IF unit = "." THEN TRUE
    ELSE IF unit = "\\." THEN ch = "."
    ELSE ch = unit


RECURSIVE RegexFrom(_, _, _, _)
\* Whether units i.. of re match the characters j.. of s up to its end.
\* The pattern's text is not escaped apart from its dots, so a "+" after a
\* one-character unit is the quantifier "one or more" of that unit. (A "+"
\* with nothing to repeat makes new RegExp throw; no input holds one.)
RegexFrom(re, i, s, j) ==
    IF i > Len(re) THEN j > Len(s)
    ELSE IF re[i] = ".*"
         THEN \E k \in j..(Len(s) + 1) : RegexFrom(re, i + 1, s, k)
    ELSE IF re[i] = "[^/]*"
         THEN \E k \in j..(Len(s) + 1) :
                  /\ \A m \in j..(k - 1) : s[m] # "/"
                  /\ RegexFrom(re, i + 1, s, k)
    ELSE IF re[i] \notin {".*", "[^/]*", "+"} /\ i < Len(re) /\ re[i + 1] = "+"
         THEN \E k \in (j + 1)..(Len(s) + 1) :
                  /\ \A m \in j..(k - 1) : AtomMatches(re[i], s[m])
                  /\ RegexFrom(re, i + 2, s, k)
    ELSE j <= Len(s) /\ AtomMatches(re[i], s[j]) /\ RegexFrom(re, i + 1, s, j + 1)

\* new RegExp(`^${regexStr}$`).test(s)
RegexTest(re, s) == RegexFrom(re, 1, s, 1)


\* matchPattern(filePath, pattern)
matchPattern(filePath, pattern) ==
    \/ pattern = filePath
    \/ RegexTest(GlobToRegex(pattern), filePath)

\* GitHubClient.matchesPatterns / SyncManager.matchesAnyPattern
matchesPatterns(filePath, patterns) ==
    \E k \in 1..Len(patterns) : matchPattern(filePath, patterns[k])

\* p.replace(/^\.?cursor\/?/, ''): strips an optional dot, the word cursor
\* and an optional slash from the start of the pattern.
StripCursorPrefix(p) ==
    LET kCursor == <<"c", "u", "r", "s", "o", "r">>
        afterDot == IF StartsWith(p, <<".">> \o kCursor) THEN Tail(p) ELSE p
    IN  IF StartsWith(afterDot, kCursor)
        THEN LET rest == From(afterDot, Len(kCursor) + 1)
             IN  IF StartsWith(rest, <<"/">>) THEN Tail(rest) ELSE rest
        ELSE p

\* patterns.map(p => p.replace(/^\.?cursor\/?/, ''))
normalizedPatterns(patterns) ==
    [k \in 1..Len(patterns) |-> StripCursorPrefix(patterns[k])]

\* GitHubClient.shouldProcessDirectory
shouldProcessDirectory(path, patterns) ==
    \E k \in 1..Len(patterns) :
        LET pattern == patterns[k]
        IN  IF Includes(pattern, <<"*", "*">>)
            THEN LET first == SubSeq(pattern, 1, IndexOf(pattern, <<"*", "*">>) - 1)
                     base == IF EndsWith(first, <<"/">>)
                             THEN SubSeq(first, 1, Len(first) - 1)
                             ELSE first
                 IN  base = <<>> \/ StartsWith(path, base) \/ StartsWith(base, path)
            ELSE IF Includes(pattern, <<"/">>)
            THEN LET dir == SubSeq(pattern, 1, LastIndexOf(pattern, <<"/">>) - 1)
                 IN  \/ path = dir
                     \/ StartsWith(path, dir \o <<"/">>)
                     \/ StartsWith(dir, path \o <<"/">>)
            ELSE FALSE

----------------------------------------------------------------------------
(* Path operations (Node's posix path module) and the path mapper.          *)

RECURSIVE ResolveSegments(_, _, _)
\* normalizeString: drops empty and "." segments and resolves "..".
ResolveSegments(segs, acc, allowAboveRoot) ==
    IF segs = <<>> THEN acc
    ELSE LET s == segs[1]
             up == <<".", ".">>
         IN  IF s = <<>> \/ s = <<".">>
             THEN ResolveSegments(Tail(segs), acc, allowAboveRoot)
             ELSE IF s = up
             THEN IF acc # <<>> /\ acc[Len(acc)] # up
                  THEN ResolveSegments(Tail(segs), SubSeq(acc, 1, Len(acc) - 1),
                                       allowAboveRoot)
                  ELSE IF allowAboveRoot
                  THEN ResolveSegments(Tail(segs), Append(acc, up), allowAboveRoot)
                  ELSE ResolveSegments(Tail(segs), acc, allowAboveRoot)
             ELSE ResolveSegments(Tail(segs), Append(acc, s), allowAboveRoot)

\* path.normalize
PathNormalize(p) ==
    IF p = <<>> THEN <<".">>
    ELSE LET isAbsolute == p[1] = "/"
             trailing == p[Len(p)] = "/"
             body == JoinWith(ResolveSegments(SplitOn(p, "/"), <<>>, ~isAbsolute), "/")
         IN  IF body = <<>>
             THEN IF isAbsolute THEN <<"/">>
                  ELSE IF trailing THEN <<".", "/">> ELSE <<".">>
             ELSE (IF isAbsolute THEN <<"/">> ELSE <<>>) \o body
                  \o (IF trailing THEN <<"/">> ELSE <<>>)

\* path.join(a, b)
PathJoin(a, b) ==
    IF a = <<>> /\ b = <<>> THEN <<".">>
    ELSE IF a = <<>> THEN PathNormalize(b)
    ELSE IF b = <<>> THEN PathNormalize(a)
    ELSE PathNormalize(a \o <<"/">> \o b)

RECURSIVE StripTrailingSlashes(_)
StripTrailingSlashes(p) ==
    IF Len(p) > 1 /\ p[Len(p)] = "/"
    THEN StripTrailingSlashes(SubSeq(p, 1, Len(p) - 1))
    ELSE p

\* path.dirname
PathDirname(p) ==
    IF p = <<>> THEN <<".">>
    ELSE LET q == StripTrailingSlashes(p)
             k == LastIndexOf(q, <<"/">>)
         IN  IF k = 0 THEN <<".">>
             ELSE IF k = 1 THEN <<"/">>
             ELSE StripTrailingSlashes(SubSeq(q, 1, k - 1))



\* The segments of a normalized path.
Segments(p) == SelectSeq(SplitOn(p, "/"), LAMBDA x : x # <<>>)

\* path.relative(from, to) for two absolute paths.
PathRelative(from, to) ==
    LET f == Segments(PathNormalize(from))
        t == Segments(PathNormalize(to))
        same == {n \in 0..Min({Len(f), Len(t)}) : SubSeq(f, 1, n) = SubSeq(t, 1, n)}
        common == Max(same)
        ups == [k \in 1..(Len(f) - common) |-> <<".", ".">>]
    IN  JoinWith(ups \o SubSeq(t, common + 1, Len(t)), "/")

\* A reverse mapping taken from the parent of the sync root.
mapToRemotePathFromParent(localPath, targetDir) ==
    PathRelative(PathDirname(targetDir), localPath)

\* SyncManager.mapToRemotePath
mapToRemotePath(localPath, targetDir) ==
    LET parent == PathDirname(targetDir)
    IN  IF localPath = PathJoin(parent, RULES_FILE) THEN RULES_FILE
        ELSE PathRelative(targetDir, localPath)

\* SyncManager.mapToLocalPath
mapToLocalPath(remotePath, targetDir) ==
    IF remotePath = RULES_FILE
    THEN PathJoin(PathDirname(targetDir), RULES_FILE)
    ELSE PathJoin(targetDir, remotePath)

----------------------------------------------------------------------------
(* Repository URL resolver (config.ts parseRepoUrl).                        *)

\* The longest run of characters from position k of s that are not in stop,
\* as the position after its last character.
RunEnd(s, k, stop) ==
    IF \E m \in k..Len(s) : s[m] \in stop
    THEN Min({m \in k..Len(s) : s[m] \in stop})
    ELSE Len(s) + 1

NoRepo == [owner |-> <<>>, repo |-> <<>>]

\* match[2].replace(/\.git$/, '')
StripDotGit(r) ==
    IF EndsWith(r, <<".", "g", "i", "t">>) THEN SubSeq(r, 1, Len(r) - 4) ELSE r

\* /^([^\/]+)\/([^\/\.]+)$/
MatchShorthand(url) ==
    LET e1 == RunEnd(url, 1, {"/"})
        e2 == RunEnd(url, e1 + 1, {"/", "."})
    IN  IF e1 > 1 /\ e1 <= Len(url) /\ e2 > e1 + 1 /\ e2 = Len(url) + 1
        THEN [owner |-> SubSeq(url, 1, e1 - 1), repo |-> SubSeq(url, e1 + 1, e2 - 1)]
        ELSE NoRepo

\* /<host>([^\/]+)\/([^\/\.]+)/ for host = 'github.com/' or 'github.com:',
\* unanchored: the leftmost position at which the whole expression matches.
MatchAfterHost(url, host) ==
    LET ok(k) == LET o == k + Len(host)
                     e1 == RunEnd(url, o, {"/"})
                     e2 == RunEnd(url, e1 + 1, {"/", "."})
                 IN  e1 > o /\ e1 <= Len(url) /\ e2 > e1 + 1
        hits == {k \in Occurrences(url, host) : ok(k)}
    IN  IF hits = {} THEN NoRepo
        ELSE LET o == Min(hits) + Len(host)
                 e1 == RunEnd(url, o, {"/"})
                 e2 == RunEnd(url, e1 + 1, {"/", "."})
             IN  [owner |-> SubSeq(url, o, e1 - 1), repo |-> SubSeq(url, e1 + 1, e2 - 1)]

\* parseRepoUrl: NoRepo stands for null.
parseRepoUrl(url) ==
    LET hostSlash == <<"g", "i", "t", "h", "u", "b", ".", "c", "o", "m", "/">>
        hostColon == <<"g", "i", "t", "h", "u", "b", ".", "c", "o", "m", ":">>
        strip(m) == [owner |-> m.owner, repo |-> StripDotGit(m.repo)]
    IN  IF url = <<>> THEN NoRepo
        ELSE IF MatchShorthand(url) # NoRepo THEN strip(MatchShorthand(url))
        ELSE IF MatchAfterHost(url, hostSlash) # NoRepo
             THEN strip(MatchAfterHost(url, hostSlash))
        ELSE IF MatchAfterHost(url, hostColon) # NoRepo
             THEN strip(MatchAfterHost(url, hostColon))
        ELSE NoRepo


\* isConfigured / the guard of the GitHubClient constructor.
isConfigured(url) == url # <<>> /\ parseRepoUrl(url) # NoRepo

----------------------------------------------------------------------------
(* State.                                                                   *)

VARIABLES
    config,           \* getConfig(): repoUrl, githubToken, conflictResolution, filesToSync
    workspaceFolder,  \* whether vscode.workspace.workspaceFolders[0] exists
    faults,           \* the kinds of call the environment may fail in this run
    localFiles,       \* local file system: absolute path -> content (regular files)
    localDirs,        \* local file system: the directories that exist
    remote,           \* the branch's tree under the sub-path: relative path -> content
    syncState,        \* the record stored under STATE_KEY in globalState
    now,              \* Date.now()
    inv,              \* the sync invocations: position, result and what each did
    last,             \* what the invocation before the current one of a flow did
    probe,            \* the latest call of a pure function: its inputs and result
    ui,               \* the status bar item, its pending resets, the commands awaiting a result
    auto              \* the extension's lifecycle and its auto-sync interval timers

vars == <<config, workspaceFolder, faults, localFiles, localDirs, remote,
          syncState, now, inv, last, probe, ui, auto>>

\* process.env.HOME and the first workspace folder's path.
HomeDir == <<"/", "h">>
WorkspaceDir == <<"/", "w">>

\* The two invocation slots; the sequential specification uses the first.
Invocations == {1, 2}

\* The largest value of Date.now(): one tick per invocation started.
MaxOps == 2

Absent == "ABSENT"
NoPath == <<>>

----------------------------------------------------------------------------
(* The remote repository client (github.ts).                                *)

\* The entries of one directory of the remote tree, by name. Paths are
\* relative to the sub-path (config.repoPath): the prefix listDirectory adds
\* and processDirectory strips again is left out of both.
RemoteEntries(dirPath) ==
    LET prefix == IF dirPath = <<>> THEN <<>> ELSE dirPath \o <<"/">>
        below == {p \in DOMAIN remote : StartsWith(p, prefix) /\ Len(p) > Len(prefix)}
        nameOf(p) == SplitOn(From(p, Len(prefix) + 1), "/")[1]
        names == {nameOf(p) : p \in below}
        entry(n) == [name |-> n,
                     path |-> prefix \o n,
                     type |-> IF (prefix \o n) \in DOMAIN remote THEN "file" ELSE "dir"]
        sorted == SortStrings(names)
    IN  [k \in 1..Len(sorted) |-> entry(sorted[k])]

\* The status the listing call answers: 404 for a directory that is not in
\* the tree, 500 when the environment fails the call.
ListStatus(dirPath, failed) ==
    IF failed THEN 500
    ELSE IF RemoteEntries(dirPath) = <<>> THEN 404
    ELSE 200

\* A listing that raises on every answer that is not a success.
listDirectoryStrict(dirPath, failed) ==
    LET status == ListStatus(dirPath, failed)
    IN  IF status = 200 THEN [threw |-> FALSE, entries |-> RemoteEntries(dirPath)]
        ELSE [threw |-> TRUE, entries |-> <<>>]

\* GitHubClient.listDirectory: the entries, none on 404; it throws on any
\* other answer that is not a success.
listDirectory(dirPath, failed) ==
    LET status == ListStatus(dirPath, failed)
    IN  IF status = 200 THEN [threw |-> FALSE, entries |-> RemoteEntries(dirPath)]
        ELSE IF status = 404 THEN [threw |-> FALSE, entries |-> <<>>]
        ELSE [threw |-> TRUE, entries |-> <<>>]


RECURSIVE processDirectory(_, _)
RECURSIVE processEntries(_, _)
\* fetchAllFiles.processDirectory: the files it fetches, in order.
processDirectory(dirPath, patterns) ==
    processEntries(listDirectory(dirPath, FALSE).entries, patterns)

\* The loop over the entries of one listing.
processEntries(entries, patterns) ==
    IF entries = <<>> THEN <<>>
    ELSE LET entry == entries[1]
             here == IF entry.type = "dir"
                     THEN IF shouldProcessDirectory(entry.path, patterns)
                          THEN processDirectory(entry.path, patterns)
                          ELSE <<>>
                     ELSE IF matchesPatterns(entry.path, patterns)
                          THEN <<entry.path>>
                          ELSE <<>>
         IN  here \o processEntries(Tail(entries), patterns)

RECURSIVE FetchEachAbort(_, _)
\* A traversal that a failed raw fetch brings to its end.
FetchEachAbort(paths, rawFailed) ==
    IF paths = <<>> \/ paths[1] \in rawFailed THEN <<>>
    ELSE <<<<paths[1], remote[paths[1]]>>>> \o FetchEachAbort(Tail(paths), rawFailed)

RECURSIVE FetchEach(_, _)
\* The raw fetch of each selected file: a failed one is logged and left out.
FetchEach(paths, rawFailed) ==
    IF paths = <<>> THEN <<>>
    ELSE (IF paths[1] \in rawFailed THEN <<>> ELSE <<<<paths[1], remote[paths[1]]>>>>)
         \o FetchEach(Tail(paths), rawFailed)

\* GitHubClient.fetchAllFiles when no listing fails: the Map as a sequence
\* of <<path, content>> in insertion order.
fetchAllFiles(patterns, rawFailed) ==
    FetchEach(processDirectory(<<>>, normalizedPatterns(patterns)), rawFailed)

\* GitHubClient.fetchFileRaw: the content, or Absent when the call throws
\* (the file is not there, or the environment fails the call).
fetchFileRaw(path, failed) ==
    IF failed \/ path \notin DOMAIN remote THEN Absent ELSE remote[path]

----------------------------------------------------------------------------
(* The local file system and the local tree scanner (sync.ts).              *)

\* fs.existsSync
existsSync(p) == p \in DOMAIN localFiles \/ p \in localDirs

\* The directories mkdir(dir, {recursive: true}) makes sure exist.
RECURSIVE DirChain(_)
DirChain(dir) ==
    IF dir = <<"/">> \/ dir = <<".">> THEN {dir}
    ELSE {dir} \cup DirChain(PathDirname(dir))

\* Whether mkdir -p can succeed: no regular file sits on the chain.
MkdirPossible(dir) == DirChain(dir) \cap DOMAIN localFiles = {}

\* fs.promises.readdir(dir, {withFileTypes: true}), by name.
LocalEntries(dir) ==
    LET childOf(p) == PathDirname(p) = dir /\ p # dir
        files == {p \in DOMAIN localFiles : childOf(p)}
        dirs == {p \in localDirs : childOf(p)}
        nameOf(p) == LET segs == SplitOn(p, "/") IN segs[Len(segs)]
        names == {nameOf(p) : p \in files \cup dirs}
        sorted == SortStrings(names)
    IN  [k \in 1..Len(sorted) |->
            [name |-> sorted[k],
             isFile |-> PathJoin(dir, sorted[k]) \in DOMAIN localFiles]]

\* Map.prototype.set on a Map kept as a sequence of <<key, value>>.
MapSet(m, key, value) ==
    IF \E k \in 1..Len(m) : m[k][1] = key
    THEN [k \in 1..Len(m) |-> IF m[k][1] = key THEN <<key, value>> ELSE m[k]]
    ELSE Append(m, <<key, value>>)

MapKeys(m) == [k \in 1..Len(m) |-> m[k][1]]

RECURSIVE scanDir(_, _, _, _)
RECURSIVE scanEntries(_, _, _, _, _)
\* collectLocalFiles.scanDir
scanDir(dir, base, patterns, files) ==
    IF ~existsSync(dir) THEN files
    ELSE scanEntries(LocalEntries(dir), dir, base, patterns, files)

scanEntries(entries, dir, base, patterns, files) ==
    IF entries = <<>> THEN files
    ELSE LET entry == entries[1]
             fullPath == PathJoin(dir, entry.name)
             relativePath == PathJoin(base, entry.name)
             files1 == IF ~entry.isFile
                       THEN scanDir(fullPath, relativePath, patterns, files)
                       ELSE IF matchesPatterns(relativePath, patterns)
                            THEN MapSet(files, relativePath, localFiles[fullPath])
                            ELSE files
         IN  scanEntries(Tail(entries), dir, base, patterns, files1)

\* SyncManager.collectLocalFiles when no read fails.
collectLocalFiles(targetDir, patterns) ==
    LET np == normalizedPatterns(patterns)
        cursorrules == PathJoin(PathDirname(targetDir), RULES_FILE)
        first == IF cursorrules \in DOMAIN localFiles /\ matchesPatterns(RULES_FILE, np)
                 THEN <<<<RULES_FILE, localFiles[cursorrules]>>>>
                 ELSE <<>>
    IN  scanDir(targetDir, <<>>, np, first)

\* A target path that is built without asking for an open workspace folder.
getTargetPathNoThrow(target) ==
    IF target = "global" THEN PathJoin(HomeDir, CURSOR_DIR)
    ELSE PathJoin(WorkspaceDir, CURSOR_DIR)

\* SyncManager.getTargetPath; NoPath when it throws 'No workspace folder open'.
getTargetPath(target) ==
    IF target = "global" THEN PathJoin(HomeDir, CURSOR_DIR)
    ELSE IF workspaceFolder THEN PathJoin(WorkspaceDir, CURSOR_DIR)
    ELSE NoPath

----------------------------------------------------------------------------
(* The conflict resolver (sync.ts handleConflict).                          *)

\* The titles of the two content-resolving options.
localLabel(direction) == IF direction = "pull" THEN "Keep Local" ELSE "Push Local"
remoteLabel(direction) == IF direction = "pull" THEN "Use Remote" ELSE "Keep Remote"

\* The answer of a dismissed prompt.
Dismissed == "undefined"

\* The items of the modal warning, and of the message after the diff.
firstOptions(direction) ==
    {localLabel(direction), remoteLabel(direction), "Show Diff", "Skip"}
secondOptions(direction) ==
    {localLabel(direction), remoteLabel(direction), "Skip"}

\* A resolver whose fixed policies are swapped.
policyResolutionSwapped(defaultResolution) ==
    IF defaultResolution = "keepLocal" THEN "useRemote"
    ELSE IF defaultResolution = "useRemote" THEN "keepLocal"
    ELSE "prompt"

\* The two early returns of handleConflict; "prompt" when the dialog is shown.
policyResolution(defaultResolution) ==
    IF defaultResolution = "keepLocal" THEN "keepLocal"
    ELSE IF defaultResolution = "useRemote" THEN "useRemote"
    ELSE "prompt"

\* A first answer that takes Show Diff for the remote option.
firstAnswerNoDiff(choice, direction) ==
    IF choice = Dismissed \/ choice = "Skip" THEN "skip"
    ELSE IF choice = localLabel(direction) THEN "keepLocal" ELSE "useRemote"

\* What handleConflict does with the answer to the modal warning: a
\* resolution, or "diff" when it goes on to show the diff and ask again.
firstAnswer(choice, direction) ==
    IF choice = Dismissed \/ choice = "Skip" THEN "skip"
    ELSE IF choice = "Show Diff" THEN "diff"
    ELSE IF choice = localLabel(direction) THEN "keepLocal" ELSE "useRemote"

\* What handleConflict returns for the answer to the message after the diff.
secondAnswer(choice, direction) ==
    IF choice = Dismissed \/ choice = "Skip" THEN "skip"
    ELSE IF choice = localLabel(direction) THEN "keepLocal" ELSE "useRemote"

----------------------------------------------------------------------------
(* The persisted sync state (config.ts).                                    *)

NoError == <<>>

\* getDefaultState
getDefaultState ==
    [lastSyncedAt |-> 0, lastSyncTarget |-> "null", lastSyncDirection |-> "null",
     lastSyncFiles |-> <<>>, lastError |-> NoError]

\* A merge that never clears a stored error.
updateSyncStateKeepsError(current, partial) ==
    [k \in DOMAIN current |->
        IF k \in DOMAIN partial /\ ~(k = "lastError" /\ partial[k] = NoError)
        THEN partial[k] ELSE current[k]]

\* A merge into the default record instead of the stored one.
updateSyncStateFromDefault(current, partial) ==
    [k \in DOMAIN current |-> IF k \in DOMAIN partial THEN partial[k] ELSE getDefaultState[k]]

\* updateSyncState: { ...current, ...partial }
updateSyncState(current, partial) ==
    [k \in DOMAIN current |-> IF k \in DOMAIN partial THEN partial[k] ELSE current[k]]

\* One entry of result.errors: `${path}: ${message}`, or the bare message of
\* a top-level failure (path = NoPath).
Err(path, msg) == [path |-> path, msg |-> msg]

\* errors.join('; '), kept as the sequence of the joined entries; null
\* (NoError) when there is none.
JoinErrors(errors) == errors

----------------------------------------------------------------------------
(* The sync orchestrator (sync.ts pull, push).                              *)

EmptyResult == [success |-> FALSE, filesProcessed |-> 0, errors |-> <<>>, conflicts |-> <<>>]

NoCur == [path |-> NoPath, localContent |-> Absent, remoteContent |-> Absent,
          remoteTrue |-> Absent, offered |-> {}]

\* An invocation slot before its first use.
FreshInv ==
    [pc |-> "idle", op |-> "none", target |-> "none", targetPath |-> NoPath,
     queue |-> <<>>, keys |-> <<>>, result |-> EmptyResult, cur |-> NoCur,
     outcome |-> "none",
     \* what the invocation did, for the properties:
     \* prompts and diffs count the dialogs of the conflict being resolved.
     setupFailed |-> FALSE, entered |-> FALSE, scans |-> 0, reads |-> 0, puts |-> 0,
     \* answers holds the user's answers to the dialogs of the latest conflict,
     \* cleanTarget whether the local side held no file of the target at the start.
     writes |-> 0, prompts |-> 0, diffs |-> 0, injected |-> FALSE, trace |-> <<>>,
     answers |-> <<>>, cleanTarget |-> FALSE,
     \* failed holds the remote calls the environment failed, overlap whether
     \* another invocation was in flight when this one started, seq the tick
     \* at which it started.
     failed |-> {}, overlap |-> FALSE, seq |-> 0]

\* The choices of the environment for one call of a kind it may fail.
MayFail(kind) == IF kind \in faults THEN BOOLEAN ELSE {FALSE}

\* The world one invocation acts on.
World(i) == [inv |-> inv[i], files |-> localFiles, dirs |-> localDirs,
             remote |-> remote, state |-> syncState]

Apply(i, w) ==
    /\ inv' = [inv EXCEPT ![i] = w.inv]
    /\ localFiles' = w.files
    /\ localDirs' = w.dirs
    /\ remote' = w.remote
    /\ syncState' = w.state

\* The catch block of pull and push: the error is appended and lastError set
\* to the first error; when that update fails too the invocation rejects.
Catch(w, err, stateFails) ==
    LET errors == Append(w.inv.result.errors, err)
        r == [w.inv.result EXCEPT !.errors = errors]
    IN  IF stateFails
        THEN [w EXCEPT !.inv = [w.inv EXCEPT !.pc = "done", !.result = r,
                                             !.outcome = "threw", !.injected = TRUE]]
        ELSE [w EXCEPT !.inv = [w.inv EXCEPT !.pc = "done", !.result = r,
                                             !.outcome = "returned"],
                       !.state = updateSyncState(w.state, [lastError |-> <<errors[1]>>])]


\* result.success = result.errors.length === 0
successOf(errors) == Len(errors) = 0

\* An end of the try block that records only the files written or pushed.
FinishProcessedOnly(w, direction, stateFails, stateFailsAgain) ==
    LET r == [w.inv.result EXCEPT !.success = successOf(w.inv.result.errors)]
        w1 == [w EXCEPT !.inv = [w.inv EXCEPT !.result = r]]
        acted == SelectSeq(w.inv.trace, LAMBDA e : e.acted)
        partial == [lastSyncedAt |-> now,
                    lastSyncTarget |-> w.inv.target,
                    lastSyncDirection |-> direction,
                    lastSyncFiles |-> [k \in 1..Len(acted) |-> acted[k].path],
                    lastError |-> IF Len(r.errors) > 0 THEN JoinErrors(r.errors)
                                  ELSE NoError]
    IN  IF stateFails
        THEN Catch([w1 EXCEPT !.inv = [w1.inv EXCEPT !.injected = TRUE]],
                   Err(NoPath, "state update failed"), stateFailsAgain)
        ELSE [w1 EXCEPT !.inv = [w1.inv EXCEPT !.pc = "done", !.outcome = "returned"],
                        !.state = updateSyncState(w.state, partial)]

\* The end of the try block: success is set, then the state is persisted;
\* a failure of that update lands in the catch block.
Finish(w, direction, stateFails, stateFailsAgain) ==
    LET r == [w.inv.result EXCEPT !.success = successOf(w.inv.result.errors)]
        w1 == [w EXCEPT !.inv = [w.inv EXCEPT !.result = r]]
        partial == [lastSyncedAt |-> now,
                    lastSyncTarget |-> w.inv.target,
                    lastSyncDirection |-> direction,
                    lastSyncFiles |-> w.inv.keys,
                    lastError |-> IF Len(r.errors) > 0 THEN JoinErrors(r.errors)
                                  ELSE NoError]
    IN  IF stateFails
        THEN Catch([w1 EXCEPT !.inv = [w1.inv EXCEPT !.injected = TRUE]],
                   Err(NoPath, "state update failed"), stateFailsAgain)
        ELSE [w1 EXCEPT !.inv = [w1.inv EXCEPT !.pc = "done", !.outcome = "returned"],
                        !.state = updateSyncState(w.state, partial)]

\* One per-file record of what the loop found and did, for the properties.
\* sha is the revision identifier the create-or-update call carried and
\* replaced the remote content that call replaced (push only).
Entry(path, localBefore, remoteBefore, seen, res, called, acted, err, sha, replaced) ==
    [path |-> path, localBefore |-> localBefore, remoteBefore |-> remoteBefore,
     seen |-> seen, res |-> res, called |-> called, acted |-> acted, err |-> err,
     sha |-> sha, replaced |-> replaced]

\* A per-file catch that gives up the rest of the loop.
FailFileAbort(w, path, msg, entry) ==
    [w EXCEPT !.inv = [w.inv EXCEPT
        !.pc = "loop", !.queue = <<>>, !.cur = NoCur, !.prompts = 0, !.diffs = 0, !.injected = TRUE,
        !.result = [@ EXCEPT !.errors = Append(@, Err(path, msg))],
        !.trace = Append(@, entry)]]

\* The catch of the per-file try: the error is recorded with the path as
\* prefix and the loop goes on with the next file.
FailFile(w, path, msg, entry) ==
    [w EXCEPT !.inv = [w.inv EXCEPT
        !.pc = "loop", !.queue = Tail(@), !.cur = NoCur, !.prompts = 0, !.diffs = 0, !.injected = TRUE,
        !.result = [@ EXCEPT !.errors = Append(@, Err(path, msg))],
        !.trace = Append(@, entry)]]

\* The conflict record pushed to result.conflicts.
ConflictInfo(path, localContent, remoteContent, resolution) ==
    [path |-> path, localContent |-> localContent, remoteContent |-> remoteContent,
     resolution |-> resolution]

\* A pull that writes after a conflict when the local side was chosen.
shouldWriteKeepLocal(res) == IF res = "none" THEN TRUE ELSE res = "keepLocal"

\* A pull that also writes when the conflict was skipped.
shouldWriteUnlessKept(res) == res # "keepLocal"

\* pull: let shouldWrite = true; after a conflict,
\* shouldWrite = resolution === 'useRemote'. res is "none" without conflict.
shouldWrite(res) == IF res = "none" THEN TRUE ELSE res = "useRemote"

\* push: let shouldPush = true; after a conflict,
\* shouldPush = resolution === 'keepLocal'.
shouldPush(res) == IF res = "none" THEN TRUE ELSE res = "keepLocal"

\* The rest of one pull iteration once the conflict check is done: the
\* conflict is recorded, then the remote content is written or not.
PullWrite(w, path, remoteContent, localBefore, res, writeFails) ==
    LET localPath == mapToLocalPath(path, w.inv.targetPath)
        write == shouldWrite(res)
        ok == write /\ ~writeFails
        conflicts == IF res = "none" THEN w.inv.result.conflicts
                     ELSE Append(w.inv.result.conflicts,
                                 ConflictInfo(path, localBefore, remoteContent, res))
        entry == Entry(path, localBefore, remoteContent, remoteContent, res,
                       write, ok, write /\ writeFails, "undefined", Absent)
    IN  [w EXCEPT
          !.files = IF ok
                    THEN [q \in DOMAIN w.files \cup {localPath} |->
                             IF q = localPath THEN remoteContent ELSE w.files[q]]
                    ELSE @,
          !.inv = [w.inv EXCEPT
             !.pc = "loop", !.queue = Tail(@), !.cur = NoCur, !.prompts = 0, !.diffs = 0,
             !.injected = @ \/ (write /\ writeFails),
             !.writes = IF ok THEN @ + 1 ELSE @,
             !.result = [@ EXCEPT
                !.conflicts = conflicts,
                !.filesProcessed = IF ok THEN @ + 1 ELSE @,
                !.errors = IF write /\ writeFails THEN Append(@, Err(path, "EIO")) ELSE @],
             !.trace = Append(@, entry)]]

\* One iteration of the pull loop up to the conflict prompt, or to its end.
\* io names the local file system call the environment fails, if any.
PullFile(w, io) ==
    LET path == w.inv.queue[1][1]
        remoteContent == w.inv.queue[1][2]
        localPath == mapToLocalPath(path, w.inv.targetPath)
        localDir == PathDirname(localPath)
        dirs1 == w.dirs \cup DirChain(localDir)
        exists == localPath \in DOMAIN w.files \/ localPath \in dirs1
        localBefore == IF localPath \in DOMAIN w.files THEN w.files[localPath] ELSE Absent
        failed == Entry(path, localBefore, remoteContent, remoteContent, "none",
                        FALSE, FALSE, TRUE, "undefined", Absent)
        w1 == [w EXCEPT !.dirs = dirs1]
        conflict == exists /\ localBefore # remoteContent
        res == IF conflict THEN policyResolution(config.conflictResolution) ELSE "none"
    IN  IF io = "mkdir" \/ ~MkdirPossible(localDir)
        THEN FailFile(w, path, "EIO", failed)
        ELSE IF exists /\ (io = "read" \/ localPath \notin DOMAIN w.files)
        THEN FailFile(w1, path, "EIO", failed)
        ELSE IF res = "prompt"
        THEN [w1 EXCEPT !.inv = [w.inv EXCEPT
                 !.pc = "prompt1", !.prompts = @ + 1, !.answers = <<>>,
                 !.cur = [path |-> path, localContent |-> localBefore,
                          remoteContent |-> remoteContent,
                          remoteTrue |-> remoteContent,
                          offered |-> firstOptions("pull")]]]
        ELSE PullWrite(w1, path, remoteContent, localBefore, res, io = "write")

\* The revision identifier of a content (a blob hash: one per content).
Sha(content) == content

\* Whether the create-or-update call is accepted: an update must name the
\* current revision, a creation must name none.
PutAccepted(tree, path, sha) ==
    IF path \in DOMAIN tree THEN sha = Sha(tree[path]) ELSE sha = "undefined"

\* pushFile: let sha; try { sha = (await this.fetchFile(path)).sha } catch {}:
\* the revision of the file as it is now, undefined when the fetch fails
\* (the file is not there, or the environment fails the call).
existingSha(tree, path, fetchFails) ==
    IF fetchFails \/ path \notin DOMAIN tree THEN "undefined" ELSE Sha(tree[path])

\* The rest of one push iteration once the conflict check is done, with
\* GitHubClient.pushFile: fetchFile for the revision (a failure is taken
\* for "does not exist"), then the create-or-update call.
PushPut(w, path, localContent, seen, remoteTrue, res, api) ==
    LET push == shouldPush(res)
        sha == existingSha(w.remote, path, api = "sha")
        ok == push /\ api # "put" /\ PutAccepted(w.remote, path, sha)
        conflicts == IF res = "none" THEN w.inv.result.conflicts
                     ELSE Append(w.inv.result.conflicts,
                                 ConflictInfo(path, localContent, seen, res))
        now0 == IF path \in DOMAIN w.remote THEN w.remote[path] ELSE Absent
        entry == Entry(path, localContent, remoteTrue, seen, res, push, ok, push /\ ~ok,
                       IF push THEN sha ELSE "undefined",
                       IF ok THEN now0 ELSE Absent)
        lost == IF push /\ api = "sha" /\ path \in DOMAIN w.remote
                THEN {[call |-> "sha", path |-> path]}
                ELSE IF push /\ api = "put" THEN {[call |-> "put", path |-> path]}
                ELSE {}
    IN  [w EXCEPT
          !.remote = IF ok
                     THEN [q \in DOMAIN w.remote \cup {path} |->
                              IF q = path THEN localContent ELSE w.remote[q]]
                     ELSE @,
          !.inv = [w.inv EXCEPT
             !.pc = "loop", !.queue = Tail(@), !.cur = NoCur, !.prompts = 0, !.diffs = 0,
             !.injected = @ \/ (push /\ api # "none"),
             !.failed = @ \cup lost,
             !.reads = IF push THEN @ + 1 ELSE @,
             !.puts = IF push THEN @ + 1 ELSE @,
             !.result = [@ EXCEPT
                !.conflicts = conflicts,
                !.filesProcessed = IF ok THEN @ + 1 ELSE @,
                !.errors = IF push /\ ~ok THEN Append(@, Err(path, "Failed to push")) ELSE @],
             !.trace = Append(@, entry)]]

\* One iteration of the push loop up to the conflict prompt, or to its end.
PushFile(w, rawFails, api) ==
    LET path == w.inv.queue[1][1]
        localContent == w.inv.queue[1][2]
        remoteTrue == IF path \in DOMAIN w.remote THEN w.remote[path] ELSE Absent
        seen == fetchFileRaw(path, rawFails)
        conflict == seen # Absent /\ seen # localContent
        res == IF conflict THEN policyResolution(config.conflictResolution) ELSE "none"
        w1 == [w EXCEPT !.inv = [w.inv EXCEPT
                  !.reads = @ + 1,
                  !.failed = IF rawFails /\ remoteTrue # Absent
                             THEN @ \cup {[call |-> "raw", path |-> path]} ELSE @,
                  !.injected = @ \/ (rawFails /\ remoteTrue # Absent)]]
    IN  IF res = "prompt"
        THEN [w1 EXCEPT !.inv = [w1.inv EXCEPT
                 !.pc = "prompt1", !.prompts = @ + 1, !.answers = <<>>,
                 !.cur = [path |-> path, localContent |-> localContent,
                          remoteContent |-> seen, remoteTrue |-> remoteTrue,
                          offered |-> firstOptions("push")]]]
        ELSE PushPut(w1, path, localContent, seen, remoteTrue, res, api)

\* A resolution that writes the remote content to the local file in either
\* direction.
ResolvedWritesLocal(w, res, io, api) ==
    PullWrite(w, w.inv.cur.path, w.inv.cur.remoteContent, w.inv.cur.localContent,
              IF res = "skip" THEN "skip" ELSE "useRemote", io = "write")

\* What follows handleConflict's return in the loop of the invocation.
Resolved(w, res, io, api) ==
    IF w.inv.op = "pull"
    THEN PullWrite(w, w.inv.cur.path, w.inv.cur.remoteContent, w.inv.cur.localContent,
                   res, io = "write")
    ELSE PushPut(w, w.inv.cur.path, w.inv.cur.localContent, w.inv.cur.remoteContent,
                 w.inv.cur.remoteTrue, res, api)

\* new SyncManager() throwing out of the GitHubClient constructor: pull or
\* push is never entered and no result exists.
ConstructorThrows(w) ==
    [w EXCEPT !.inv = [w.inv EXCEPT !.pc = "done", !.outcome = "threw",
                                    !.setupFailed = TRUE]]

\* A top-level failure before the loop: the catch block.
SetupFails(w, msg, stateFails) ==
    Catch([w EXCEPT !.inv = [w.inv EXCEPT !.setupFailed = TRUE,
                                          !.injected = @ \/ stateFails]],
          Err(NoPath, msg), stateFails)

\* pull up to its loop: getTargetPath, mkdir of the target, fetchAllFiles.
PullSetup(w, mkdirFails, listFails, rawFailed, stateFails) ==
    LET targetPath == getTargetPath(w.inv.target)
        w0 == [w EXCEPT !.inv = [w.inv EXCEPT !.entered = TRUE]]
        w1 == [w0 EXCEPT !.dirs = @ \cup DirChain(targetPath),
                         !.inv = [w0.inv EXCEPT !.targetPath = targetPath]]
        files == fetchAllFiles(config.filesToSync, rawFailed)
        selected == Range(processDirectory(<<>>, normalizedPatterns(config.filesToSync)))
    IN  IF parseRepoUrl(config.repoUrl) = NoRepo THEN ConstructorThrows(w)
        ELSE IF targetPath = NoPath
        THEN SetupFails(w0, "No workspace folder open", stateFails)
        ELSE IF mkdirFails \/ ~MkdirPossible(targetPath)
        THEN SetupFails([w0 EXCEPT !.inv = [w0.inv EXCEPT !.injected = TRUE]],
                        "EIO", stateFails)
        ELSE IF listDirectory(<<>>, listFails).threw
        THEN SetupFails([w1 EXCEPT !.inv = [w1.inv EXCEPT !.injected = @ \/ listFails,
                                                         !.failed = {[call |-> "list", path |-> NoPath]},
                                                         !.reads = @ + 1]],
                        "GitHub API error", stateFails)
        ELSE [w1 EXCEPT !.inv = [w1.inv EXCEPT
                 !.pc = "loop", !.queue = files, !.keys = MapKeys(files),
                 !.reads = @ + 1 + Cardinality(selected),
                 !.failed = {[call |-> "raw", path |-> p] : p \in rawFailed \cap selected},
                 !.injected = @ \/ (rawFailed \cap selected # {})]]

\* A push that does not ask for the token before it starts.
tokenMissingNever(token) == FALSE

\* push: if (!config.githubToken) throw
tokenMissing(token) == token = ""

\* push up to its loop: the token and the target directory are required,
\* then the local files are collected.
PushSetup(w, scanFails, stateFails) ==
    LET targetPath == getTargetPath(w.inv.target)
        w0 == [w EXCEPT !.inv = [w.inv EXCEPT !.entered = TRUE]]
        w1 == [w0 EXCEPT !.inv = [w0.inv EXCEPT !.targetPath = targetPath,
                                               !.scans = @ + 1]]
        files == collectLocalFiles(targetPath, config.filesToSync)
    IN  IF parseRepoUrl(config.repoUrl) = NoRepo THEN ConstructorThrows(w)
        ELSE IF tokenMissing(config.githubToken)
        THEN SetupFails(w0, "GitHub token required for push", stateFails)
        ELSE IF targetPath = NoPath
        THEN SetupFails(w0, "No workspace folder open", stateFails)
        ELSE IF ~existsSync(targetPath)
        THEN SetupFails(w0, "Target directory does not exist", stateFails)
        ELSE IF scanFails
        THEN SetupFails([w1 EXCEPT !.inv = [w1.inv EXCEPT !.injected = TRUE]],
                        "EIO", stateFails)
        ELSE [w1 EXCEPT !.inv = [w1.inv EXCEPT
                 !.pc = "loop", !.queue = files, !.keys = MapKeys(files)]]

----------------------------------------------------------------------------
(* The status indicator (statusBar.ts).                                     *)

\* createStatusBar: the item shows idle, no reset is pending and no command
\* awaits a result.
NoUi == [status |-> "idle", timers |-> 0, awaiting |-> [i \in Invocations |-> FALSE]]

\* updateStatusBar(state): nothing without an item (after disposeStatusBar);
\* without a usable repository the item invites to
\* configure; 'success' also schedules setTimeout(() => updateStatusBar('idle'),
\* 5000), which nothing cancels.
updateStatusBar(u, state) ==
    IF u.status = "disposed" THEN u
    ELSE IF ~isConfigured(config.repoUrl) THEN [u EXCEPT !.status = "configure"]
    ELSE IF state = "success" THEN [u EXCEPT !.status = "success", !.timers = @ + 1]
    ELSE [u EXCEPT !.status = state]

----------------------------------------------------------------------------
(* The auto-sync timer (extension.ts setupAutoSync).                        *)

\* The most interval timers the model lets be scheduled at once.
MaxTimers == 3

\* Before activation: no interval handle in autoSyncInterval (0 is null), no
\* interval timer scheduled. replaced and stopped tell whether a setup has
\* replaced a timer and whether deactivate has cleared one.
NoAuto == [active |-> FALSE, autoSyncInterval |-> 0, scheduled |-> {},
           replaced |-> FALSE, stopped |-> FALSE]

\* A setup that schedules the new interval without clearing the old one.
setupAutoSyncNoClear(a, cfg) ==
    IF ~cfg.autoSyncEnabled \/ ~isConfigured(cfg.repoUrl) THEN a
    ELSE LET handle == CHOOSE n \in 1..(MaxTimers + 1) : n \notin a.scheduled
         IN  [a EXCEPT !.autoSyncInterval = handle,
                       !.scheduled = @ \cup {handle},
                       !.replaced = @ \/ a.autoSyncInterval # 0]

\* setupAutoSync under the settings cfg: the existing interval is cleared,
\* then a new one is scheduled if auto-sync is enabled and the repository
\* configured.
setupAutoSync(a, cfg) ==
    LET cleared == IF a.autoSyncInterval # 0
                   THEN [a EXCEPT !.scheduled = @ \ {a.autoSyncInterval},
                                  !.autoSyncInterval = 0]
                   ELSE a
        handle == CHOOSE n \in 1..(MaxTimers + 1) : n \notin cleared.scheduled
    IN  IF ~cfg.autoSyncEnabled \/ ~isConfigured(cfg.repoUrl) THEN cleared
        ELSE [cleared EXCEPT !.autoSyncInterval = handle,
                             !.scheduled = @ \cup {handle},
                             !.replaced = @ \/ a.autoSyncInterval # 0]

----------------------------------------------------------------------------
(* Actions.                                                                 *)

Targets == {"global", "workspace"}

IoChoices == IF "io" \in faults THEN {"none", "mkdir", "read", "write"} ELSE {"none"}
ApiChoices == IF "api" \in faults THEN {"none", "sha", "put"} ELSE {"none"}
RawChoices == IF "raw" \in faults THEN SUBSET DOMAIN remote ELSE {{}}

\* A start that is refused while another invocation is in flight.
CanStartExclusive(i) ==
    /\ inv[i].pc \in {"idle", "done"} /\ now < MaxOps
    /\ \A j \in DOMAIN inv : j # i => inv[j].pc \in {"idle", "done"}

\* A new invocation may start in a slot that is idle or done.
CanStart(i) == inv[i].pc \in {"idle", "done"} /\ now < MaxOps

\* What is kept of an invocation once the next one of the flow starts.
Summary(v) ==
    [op |-> v.op, target |-> v.target, outcome |-> v.outcome, injected |-> v.injected,
     filesProcessed |-> v.result.filesProcessed, conflicts |-> Len(v.result.conflicts),
     errors |-> Len(v.result.errors)]

\* Whether no local file belongs to the target: none below the sync root and
\* no rules file beside it.
CleanTarget(target) ==
    LET root == getTargetPath(target)
    IN  /\ root # NoPath
        /\ \A p \in DOMAIN localFiles :
              /\ ~StartsWith(p, root \o <<"/">>)
              /\ p # PathDirname(root) \o <<"/">> \o RULES_FILE

\* The positions of an invocation that has started and not yet finished.
InFlight == {"loop", "prompt1", "prompt2"}

Begin(i, op, target) ==
    [World(i) EXCEPT !.inv = [FreshInv EXCEPT
        !.op = op, !.target = target,
        !.cleanTarget = CleanTarget(target),
        !.seq = now + 1,
        !.overlap = \E j \in Invocations \ {i} : inv[j].pc \in InFlight]]

\* new SyncManager().pull(target), up to the loop.
StartPull(i, target) ==
    /\ CanStart(i)
    /\ now' = now + 1
    /\ last' = Summary(inv[i])
    /\ \E mkdirFails \in MayFail("io"), listFails \in MayFail("list"),
          rawFailed \in RawChoices, stateFails \in MayFail("state") :
          Apply(i, PullSetup(Begin(i, "pull", target), mkdirFails, listFails,
                             rawFailed, stateFails))
    /\ UNCHANGED <<auto, ui, probe, config, workspaceFolder, faults>>

\* new SyncManager().push(target), up to the loop.
StartPush(i, target) ==
    /\ CanStart(i)
    /\ now' = now + 1
    /\ last' = Summary(inv[i])
    /\ \E scanFails \in MayFail("io"), stateFails \in MayFail("state") :
          Apply(i, PushSetup(Begin(i, "push", target), scanFails, stateFails))
    /\ UNCHANGED <<auto, ui, probe, config, workspaceFolder, faults>>

\* One iteration of the pull loop.
PullStep(i) ==
    /\ inv[i].pc = "loop" /\ inv[i].op = "pull" /\ inv[i].queue # <<>>
    /\ \E io \in IoChoices : Apply(i, PullFile(World(i), io))
    /\ UNCHANGED <<auto, ui, probe, config, workspaceFolder, faults, now, last>>

\* One iteration of the push loop.
PushStep(i) ==
    /\ inv[i].pc = "loop" /\ inv[i].op = "push" /\ inv[i].queue # <<>>
    /\ \E rawFails \in MayFail("raw"), api \in ApiChoices :
          Apply(i, PushFile(World(i), rawFails, api))
    /\ UNCHANGED <<auto, ui, probe, config, workspaceFolder, faults, now, last>>

\* The user answers (or dismisses) the modal warning of handleConflict.
AnswerFirst(i) ==
    /\ inv[i].pc = "prompt1"
    /\ \E choice \in inv[i].cur.offered \cup {Dismissed},
          io \in IoChoices \cap {"none", "write"}, api \in ApiChoices :
          LET a == firstAnswer(choice, inv[i].op)
              w0 == World(i)
              w == [w0 EXCEPT !.inv = [w0.inv EXCEPT !.answers = Append(@, choice)]]
          IN  IF a = "diff"
              THEN Apply(i, [w EXCEPT !.inv = [w.inv EXCEPT
                       !.pc = "prompt2", !.diffs = @ + 1, !.prompts = @ + 1,
                       !.cur = [@ EXCEPT !.offered = secondOptions(w.inv.op)]]])
              ELSE Apply(i, Resolved(w, a, io, api))
    /\ UNCHANGED <<auto, ui, probe, config, workspaceFolder, faults, now, last>>

\* The user answers (or dismisses) the message shown after the diff.
AnswerSecond(i) ==
    /\ inv[i].pc = "prompt2"
    /\ \E choice \in inv[i].cur.offered \cup {Dismissed},
          io \in IoChoices \cap {"none", "write"}, api \in ApiChoices :
          LET w0 == World(i)
              w == [w0 EXCEPT !.inv = [w0.inv EXCEPT !.answers = Append(@, choice)]]
          IN  Apply(i, Resolved(w, secondAnswer(choice, inv[i].op), io, api))
    /\ UNCHANGED <<auto, ui, probe, config, workspaceFolder, faults, now, last>>

\* After the loop: success is computed and the sync state persisted.
FinishStep(i) ==
    /\ inv[i].pc = "loop" /\ inv[i].queue = <<>>
    /\ \E stateFails \in MayFail("state"), stateFailsAgain \in MayFail("state") :
          Apply(i, Finish(World(i), inv[i].op, stateFails, stateFailsAgain))
    /\ UNCHANGED <<auto, ui, probe, config, workspaceFolder, faults, now, last>>

----------------------------------------------------------------------------
(* Initial states.                                                          *)

PathRulesA == <<"r", "u", "l", "e", "s", "/", "a", ".", "m", "d", "c">>
PathMcp == <<"m", "c", "p", ".", "j", "s", "o", "n">>

\* A tree holding the given files, all with one content.
Tree(paths, content) == [p \in paths |-> content]

\* The remote trees of the initial states.
RemoteTrees ==
    { Tree({}, "A"),
      Tree({PathMcp}, "A"),
      Tree({PathRulesA, PathMcp}, "A"),
      Tree({RULES_FILE, PathMcp}, "A"),
      Tree({RULES_FILE, PathRulesA, PathMcp}, "A") }

\* The local trees of the initial states: files of the global target only
\* (the workspace target starts without its .cursor directory).
GlobalRoot == HomeDir \o <<"/">> \o CURSOR_DIR
LocalRulesA == GlobalRoot \o <<"/">> \o PathRulesA
LocalMcp == GlobalRoot \o <<"/">> \o PathMcp
LocalRulesFile == HomeDir \o <<"/">> \o RULES_FILE

\* The directories a local tree implies; the home and workspace folders exist.
RECURSIVE Ancestors(_)
Ancestors(p) ==
    IF Len(p) <= 1 THEN {}
    ELSE LET d == PathDirname(p) IN {d} \cup Ancestors(d)
DirsOf(tree) == {<<"/">>, HomeDir, WorkspaceDir} \cup UNION {Ancestors(p) : p \in DOMAIN tree}

BaseConfig(policy) ==
    [repoUrl |-> <<"u", "/", "d">>, githubToken |-> "tok",
     conflictResolution |-> policy, filesToSync |-> DefaultFilesToSync,
     autoSyncEnabled |-> FALSE]


\* No pure function called yet.
NoProbe == [fn |-> "none", a |-> <<>>, b |-> <<>>, out |-> <<>>]

\* The settings and environments of a run are the default settings under
\* each policy, or one departure from them.
Init ==
    /\ \E e \in
             LET base(p) == [config |-> BaseConfig(p), workspaceFolder |-> TRUE, faults |-> {}]
             IN  {base(p) : p \in {"ask", "keepLocal", "useRemote"}}
                 \cup {[base(p) EXCEPT !.config.filesToSync = <<<<"*", "*">>>>] : p \in {"ask", "keepLocal", "useRemote"}}
                 \cup { [base("useRemote") EXCEPT !.config.repoUrl = <<"u">>],
                        [base("useRemote") EXCEPT !.config.githubToken = ""],
                        [base("useRemote") EXCEPT !.workspaceFolder = FALSE] }
                 \cup {[base("useRemote") EXCEPT !.faults = {k}] : k \in {"io", "list", "raw", "api", "state"}}
                 \cup {[base("keepLocal") EXCEPT !.faults = {"api"}]} :
          /\ config = e.config
          /\ workspaceFolder = e.workspaceFolder
          /\ faults = e.faults
    /\ remote \in RemoteTrees
    /\ localFiles \in { Tree({}, "A"),
                       Tree({LocalRulesA}, "A") @@ Tree({LocalMcp}, "B"),
                       Tree({LocalRulesFile, LocalRulesA}, "B") @@ Tree({LocalMcp}, "A"),
                       Tree({LocalRulesFile, LocalRulesA, LocalMcp}, "B") }
    /\ localDirs = DirsOf(localFiles)
    /\ syncState = getDefaultState
    /\ now = 0
    /\ inv = [i \in Invocations |-> FreshInv]
    /\ last = Summary(FreshInv)
    /\ probe = NoProbe
    /\ ui = NoUi
    /\ auto = [NoAuto EXCEPT !.active = TRUE]

\* One flow of control: the invocations run one after the other.
Next ==
    \/ \E t \in Targets : StartPull(1, t)
    \/ \E t \in Targets : StartPush(1, t)
    \/ PullStep(1)
    \/ PushStep(1)
    \/ AnswerFirst(1)
    \/ AnswerSecond(1)
    \/ FinishStep(1)

Spec == Init /\ [][Next]_vars

----------------------------------------------------------------------------
(* The pure functions on their own: the matcher, the traversal's selection, *)
(* the path mapping and the repository URL resolver.                        *)

\* Paths and patterns the functions are called with.
ProbePaths ==
    { <<"a">>,
      <<"a", "b">>,
      <<"a", "a", "b">>,
      <<"a", "+", "b">>,
      <<"a", "/", "b">>,
      <<"a", ".", "b">>,
      <<"a", "x", "b">>,
      <<"r", "u", "l", "e", "s", "/", "a", ".", "m", "d", "c">>,
      <<"r", "u", "l", "e", "s", "/", "s", "u", "b", "/", "b", ".", "m", "d", "c">>,
      <<"r", "u", "l", "e", "/", "a", ".", "m", "d", "c">>,
      <<"m", "c", "p", ".", "j", "s", "o", "n">>,
      <<"m", "c", "p", "x", "j", "s", "o", "n">>,
      <<".", "c", "u", "r", "s", "o", "r", "r", "u", "l", "e", "s">>,
      <<"r", "u", "l", "e", "s", "/", ".", "c", "u", "r", "s", "o", "r", "r", "u", "l", "e", "s">> }


ProbePatternLists ==
    { <<>>,
      <<<<".", "c", "u", "r", "s", "o", "r", "r", "u", "l", "e", "s">>, <<"r", "u", "l", "e", "s", "/", "*", "*">>, <<"m", "c", "p", ".", "j", "s", "o", "n">>, <<"p", "r", "o", "m", "p", "t", "s", "/", "*", "*">>>>,
      <<<<"*", "*">>>>,
      <<<<"*", "/", "a", ".", "m", "d", "c">>>>,
      <<<<"r", "u", "l", "e", "s", "/", "*", "*">>, <<"m", "c", "p", ".", "j", "s", "o", "n">>>>,
      <<<<".", "c", "u", "r", "s", "o", "r", "/", "r", "u", "l", "e", "s", "/", "*", "*">>>>,
      <<<<"r", "u", "l", "e", "s", "/", "s", "u", "b", "/", "*">>>> }



\* Repository URLs in the three accepted shapes, and inputs in none.
UrlsOf(o, r) ==
    LET web == <<"h", "t", "t", "p", "s", ":", "/", "/", "g", "i", "t", "h", "u", "b", ".", "c", "o", "m", "/">>
        ssh == <<"g", "i", "t", "@", "g", "i", "t", "h", "u", "b", ".", "c", "o", "m", ":">>
        plain == {o \o <<"/">> \o r, web \o o \o <<"/">> \o r, ssh \o o \o <<"/">> \o r}
    IN  plain \cup {u \o <<".", "g", "i", "t">> : u \in plain}

\* matchPattern(path, pattern)
CallMatch ==
    /\ probe = NoProbe
    /\ \E path \in ProbePaths,
          pattern \in { <<"*", "*">>,
                       <<"*">>,
                       <<"r", "u", "l", "e", "s", "/", "*", "*">>,
                       <<"a", "?", "b">>,
                       <<"a", "*", "b">>,
                       <<"a", ".", "b">>,
                       <<"a", "+", "b">>,
                       <<"m", "c", "p", ".", "j", "s", "o", "n">>,
                       <<"a", "b">>,
                       <<"*", "/", "a", ".", "m", "d", "c">>,
                       <<"r", "u", "l", "e", "s">>,
                       <<".", "c", "u", "r", "s", "o", "r", "r", "u", "l", "e", "s">> } :
          probe' = [fn |-> "matchPattern", a |-> path, b |-> pattern,
                    out |-> matchPattern(path, pattern)]
    /\ UNCHANGED <<auto, ui, config, workspaceFolder, faults, localFiles, localDirs, remote,
                   syncState, now, inv, last>>

\* matchesPatterns(path, patterns)
CallMatchAny ==
    /\ probe = NoProbe
    /\ \E path \in ProbePaths, patterns \in ProbePatternLists :
          probe' = [fn |-> "matchesPatterns", a |-> path, b |-> patterns,
                    out |-> matchesPatterns(path, patterns)]
    /\ UNCHANGED <<auto, ui, config, workspaceFolder, faults, localFiles, localDirs, remote,
                   syncState, now, inv, last>>

\* fetchAllFiles(patterns): the paths the traversal selects.
CallTraverse ==
    /\ probe = NoProbe
    /\ \E patterns \in ProbePatternLists :
          probe' = [fn |-> "fetchAllFiles", a |-> patterns, b |-> <<>>,
                    out |-> MapKeys(fetchAllFiles(patterns, {}))]
    /\ UNCHANGED <<auto, ui, config, workspaceFolder, faults, localFiles, localDirs, remote,
                   syncState, now, inv, last>>

\* mapToRemotePath(mapToLocalPath(p, root), root)
CallRoundTrip ==
    /\ probe = NoProbe
    /\ \E p \in ProbePaths, root \in {GlobalRoot, WorkspaceDir \o <<"/">> \o CURSOR_DIR} :
          probe' = [fn |-> "mapToRemotePath", a |-> p, b |-> root,
                    out |-> mapToRemotePath(mapToLocalPath(p, root), root)]
    /\ UNCHANGED <<auto, ui, config, workspaceFolder, faults, localFiles, localDirs, remote,
                   syncState, now, inv, last>>

\* parseRepoUrl(url)
CallParse ==
    /\ probe = NoProbe
    /\ \E url \in UNION {UrlsOf(o, r) : o \in {<<"o">>, <<"o", "w">>}, r \in {<<"r">>, <<"r", "p">>}}
                    \cup {<<>>, <<"u">>,
                          <<"h", "t", "t", "p", "s", ":", "/", "/", "x", ".", "y", "/", "o">>} :
          probe' = [fn |-> "parseRepoUrl", a |-> url, b |-> <<>>,
                    out |-> parseRepoUrl(url)]
    /\ UNCHANGED <<auto, ui, config, workspaceFolder, faults, localFiles, localDirs, remote,
                   syncState, now, inv, last>>

\* The local tree that holds the files of a remote tree at their local
\* places under a sync root.
Mirror(tree, root) ==
    LET place == [p \in DOMAIN tree |-> mapToLocalPath(p, root)]
    IN  [q \in {place[p] : p \in DOMAIN tree} |->
            tree[CHOOSE p \in DOMAIN tree : place[p] = q]]

\* fetchAllFiles(patterns) over the remote tree and collectLocalFiles over
\* the same files under the global sync root: the paths each selects.
CallSelect ==
    /\ probe = NoProbe
    /\ localFiles = Mirror(remote, GlobalRoot)
    /\ \E patterns \in ProbePatternLists :
          probe' = [fn |-> "select", a |-> patterns,
                    b |-> MapKeys(fetchAllFiles(patterns, {})),
                    out |-> MapKeys(collectLocalFiles(GlobalRoot, patterns))]
    /\ UNCHANGED <<auto, ui, config, workspaceFolder, faults, localFiles, localDirs, remote,
                   syncState, now, inv, last>>

\* collectLocalFiles(targetDir, patterns) for the global target: the Map it
\* returns, as the sequence of its <<key, content>> entries.
CallScan ==
    /\ probe = NoProbe
    /\ \E patterns \in ProbePatternLists :
          probe' = [fn |-> "collectLocalFiles", a |-> patterns, b |-> GlobalRoot,
                    out |-> collectLocalFiles(GlobalRoot, patterns)]
    /\ UNCHANGED <<auto, ui, config, workspaceFolder, faults, localFiles, localDirs, remote,
                   syncState, now, inv, last>>

\* A pure function has no memory: one call per behaviour, on every input.
\* The local side holds the same files as the remote side, with or without
\* a file named .cursorrules inside the sync root.
InitPure ==
    /\ config = BaseConfig("useRemote")
    /\ workspaceFolder = TRUE
    /\ faults = {}
    /\ remote \in RemoteTrees \cup
          {Tree({PathRulesA, PathMcp,
                 <<"r", "u", "l", "e", "s", "/", "s", "u", "b", "/", "b", ".", "m", "d", "c">>},
                "A")}
    /\ localFiles \in {Mirror(remote, GlobalRoot),
                       Mirror(remote, GlobalRoot)
                          @@ Tree({GlobalRoot \o <<"/">> \o RULES_FILE}, "B")}
    /\ localDirs = DirsOf(localFiles)
    /\ syncState = getDefaultState
    /\ now = 0
    /\ inv = [i \in Invocations |-> FreshInv]
    /\ last = Summary(FreshInv)
    /\ probe = NoProbe
    /\ ui = NoUi
    /\ auto = [NoAuto EXCEPT !.active = TRUE]

NextPure ==
    \/ CallMatch
    \/ CallMatchAny
    \/ CallTraverse
    \/ CallRoundTrip
    \/ CallParse
    \/ CallSelect
    \/ CallScan

SpecPure == InitPure /\ [][NextPure]_vars

----------------------------------------------------------------------------
(* Overlapping invocations: every command and every tick of the auto-sync   *)
(* timer builds its own SyncManager, and the awaits of pull and push let    *)
(* another invocation, or another writer of the repository, run in between. *)


\* The remote tree after another writer has changed the file at path.
Edited(tree, path) == [q \in DOMAIN tree |-> IF q = path THEN "C" ELSE tree[q]]

\* Another writer of the repository changes a file while a push is
\* in flight (between two of its steps, or while it waits at a prompt).
RemoteEdit ==
    /\ \E i \in Invocations : inv[i].pc \in InFlight /\ inv[i].op = "push"
    /\ \E p \in DOMAIN remote :
          /\ remote[p] # "C"
          /\ remote' = Edited(remote, p)
    /\ UNCHANGED <<auto, ui, probe, config, workspaceFolder, faults, now, last,
                   localFiles, localDirs, syncState, inv>>

\* One iteration of the push loop during which another writer changes the
\* file after fetchFileRaw has returned and before pushFile is called: the
\* comparison reads the tree as it was, pushFile the tree as it has become.
PushStepEdited(i) ==
    /\ inv[i].pc = "loop" /\ inv[i].op = "push" /\ inv[i].queue # <<>>
    /\ LET path == inv[i].queue[1][1]
       IN  /\ path \in DOMAIN remote
           /\ remote[path] # "C"
           /\ Apply(i, PushFile([World(i) EXCEPT !.remote = Edited(remote, path)],
                                FALSE, "none"))
    /\ UNCHANGED <<auto, ui, probe, config, workspaceFolder, faults, now, last>>

\* The settings of the overlapping runs: no injected failure, the prompting
\* policy or an automatic one, with or without an open workspace folder.
InitOverlap ==
    /\ \E e \in LET base(p) == [config |-> BaseConfig(p), workspaceFolder |-> TRUE,
                                faults |-> {}]
                 IN  {base("ask"), base("keepLocal"),
                      [base("useRemote") EXCEPT !.workspaceFolder = FALSE]} :
          /\ config = e.config
          /\ workspaceFolder = e.workspaceFolder
          /\ faults = e.faults
    /\ remote = Tree({PathMcp}, "A")
    /\ localFiles \in {Tree({}, "A"), Tree({LocalMcp}, "B")}
    /\ localDirs = DirsOf(localFiles)
    /\ syncState = getDefaultState
    /\ now = 0
    /\ inv = [i \in Invocations |-> FreshInv]
    /\ last = Summary(FreshInv)
    /\ probe = NoProbe
    /\ ui = NoUi
    /\ auto = [NoAuto EXCEPT !.active = TRUE]

\* Any invocation may take its next step, a new one may start in a free
\* slot, and the repository may change under them.
NextOverlap ==
    \/ \E i \in Invocations, t \in Targets : StartPull(i, t)
    \/ \E i \in Invocations, t \in Targets : StartPush(i, t)
    \/ \E i \in Invocations : PullStep(i)
    \/ \E i \in Invocations : PushStep(i)
    \/ \E i \in Invocations : PushStepEdited(i)
    \/ \E i \in Invocations : AnswerFirst(i)
    \/ \E i \in Invocations : AnswerSecond(i)
    \/ \E i \in Invocations : FinishStep(i)
    \/ RemoteEdit

SpecOverlap == InitOverlap /\ [][NextOverlap]_vars

----------------------------------------------------------------------------
(* The commands and the auto-sync timer with the status indicator           *)
(* (extension.ts executePull, executePush, setupAutoSync). The commands run *)
(* in slot 1, the ticks of the auto-sync timer in slot 2.                   *)

\* executePull up to the loop of pull: the guard, updateStatusBar('syncing'),
\* new SyncManager().pull(target).
ExecutePull(target) ==
    /\ isConfigured(config.repoUrl)
    /\ CanStart(1) /\ ~ui.awaiting[1]
    /\ now' = now + 1
    /\ last' = Summary(inv[1])
    /\ ui' = [updateStatusBar(ui, "syncing") EXCEPT !.awaiting[1] = TRUE]
    /\ \E mkdirFails \in MayFail("io"), listFails \in MayFail("list"),
          rawFailed \in RawChoices, stateFails \in MayFail("state") :
          Apply(1, PullSetup(Begin(1, "pull", target), mkdirFails,
                                       listFails, rawFailed, stateFails))
    /\ UNCHANGED <<auto, probe, config, workspaceFolder, faults>>

\* executePush up to the loop of push: the guards, the confirmation,
\* updateStatusBar('syncing'), new SyncManager().push(target).
ExecutePush(target) ==
    /\ isConfigured(config.repoUrl) /\ config.githubToken # ""
    /\ CanStart(1) /\ ~ui.awaiting[1]
    /\ now' = now + 1
    /\ last' = Summary(inv[1])
    /\ ui' = [updateStatusBar(ui, "syncing") EXCEPT !.awaiting[1] = TRUE]
    /\ \E scanFails \in MayFail("io"), stateFails \in MayFail("state") :
          Apply(1, PushSetup(Begin(1, "push", target), scanFails,
                                       stateFails))
    /\ UNCHANGED <<auto, probe, config, workspaceFolder, faults>>

\* One tick of the auto-sync interval, up to the loop of pull:
\* updateStatusBar('syncing'), new SyncManager().pull(target).
AutoSyncTick(target) ==
    /\ auto.scheduled # {}
    /\ CanStart(2) /\ ~ui.awaiting[2]
    /\ now' = now + 1
    /\ last' = Summary(inv[2])
    /\ ui' = [updateStatusBar(ui, "syncing") EXCEPT !.awaiting[2] = TRUE]
    /\ \E mkdirFails \in MayFail("io"), listFails \in MayFail("list"),
          rawFailed \in RawChoices, stateFails \in MayFail("state") :
          Apply(2, PullSetup(Begin(2, "pull", target), mkdirFails,
                                     listFails, rawFailed, stateFails))
    /\ UNCHANGED <<auto, probe, config, workspaceFolder, faults>>

\* The caller of pull or push gets the result (or the exception) and
\* reports it on the status indicator: 'success' when result.success,
\* 'error' otherwise and in its catch.
Report(i) ==
    /\ ui.awaiting[i] /\ inv[i].pc = "done"
    /\ ui' = [updateStatusBar(ui, IF inv[i].outcome = "threw" THEN "error"
                                     ELSE IF inv[i].result.success THEN "success"
                                     ELSE "error") EXCEPT !.awaiting[i] = FALSE]
    /\ UNCHANGED <<auto, probe, config, workspaceFolder, faults, now, last,
                   localFiles, localDirs, remote, syncState, inv>>

\* A reset scheduled by a success fires: updateStatusBar('idle').
ResetTimerFires ==
    /\ ui.timers > 0
    /\ ui' = updateStatusBar([ui EXCEPT !.timers = @ - 1], "idle")
    /\ UNCHANGED <<auto, probe, config, workspaceFolder, faults, now, last,
                   localFiles, localDirs, remote, syncState, inv>>

\* The settings of the runs with the status indicator: configured, with a
\* token and auto-sync enabled, the prompting policy or no open workspace
\* folder; the extension is active, its interval timer scheduled.
InitStatus ==
    /\ \E e \in LET base(p) == [config |-> BaseConfig(p), workspaceFolder |-> TRUE,
                                faults |-> {}]
                 IN  {base("ask"), [base("useRemote") EXCEPT !.workspaceFolder = FALSE]} :
          /\ config = [e.config EXCEPT !.autoSyncEnabled = TRUE]
          /\ workspaceFolder = e.workspaceFolder
          /\ faults = e.faults
    /\ remote = Tree({PathMcp}, "A")
    /\ localFiles \in {Tree({}, "A"), Tree({LocalMcp}, "B")}
    /\ localDirs = DirsOf(localFiles)
    /\ syncState = getDefaultState
    /\ now = 0
    /\ inv = [i \in Invocations |-> FreshInv]
    /\ last = Summary(FreshInv)
    /\ probe = NoProbe
    /\ ui = NoUi
    /\ auto = setupAutoSync([NoAuto EXCEPT !.active = TRUE], config)

NextStatus ==
    \/ \E t \in Targets : ExecutePull(t)
    \/ \E t \in Targets : ExecutePush(t)
    \/ \E t \in Targets : AutoSyncTick(t)
    \/ \E i \in Invocations : PullStep(i)
    \/ \E i \in Invocations : PushStep(i)
    \/ \E i \in Invocations : AnswerFirst(i)
    \/ \E i \in Invocations : AnswerSecond(i)
    \/ \E i \in Invocations : FinishStep(i)
    \/ \E i \in Invocations : Report(i)
    \/ ResetTimerFires

SpecStatus == InitStatus /\ [][NextStatus]_vars

----------------------------------------------------------------------------
(* The life of the extension: activation, changes of the settings,          *)
(* deactivation, and the ticks of the auto-sync timer in between.           *)

\* activate: createStatusBar, setupAutoSync (syncOnStartup is off).
Activate ==
    /\ ~auto.active
    /\ auto' = setupAutoSync([auto EXCEPT !.active = TRUE], config)
    /\ ui' = updateStatusBar([ui EXCEPT !.status = "idle"], "idle")
    /\ UNCHANGED <<probe, config, workspaceFolder, faults, now, last,
                   localFiles, localDirs, remote, syncState, inv>>

\* The user changes the repository URL or the auto-sync switch while the
\* extension is active: handleConfigChange runs under the new settings,
\* updateStatusBar('idle') then setupAutoSync.
HandleConfigChange ==
    /\ auto.active
    /\ \E url \in {<<"u", "/", "d">>, <<"o", "/", "r">>, <<"u">>, <<>>},
          enabled \in BOOLEAN :
          /\ config' = [config EXCEPT !.repoUrl = url, !.autoSyncEnabled = enabled]
          /\ config' # config
          /\ Cardinality(auto.scheduled) < MaxTimers
          /\ auto' = setupAutoSync(auto, config')
          /\ ui' = IF ui.status = "disposed" THEN ui
                   ELSE IF ~isConfigured(url) THEN [ui EXCEPT !.status = "configure"]
                   ELSE [ui EXCEPT !.status = "idle"]
    /\ UNCHANGED <<probe, workspaceFolder, faults, now, last,
                   localFiles, localDirs, remote, syncState, inv>>

\* deactivate: the interval is cleared, the status bar item disposed.
Deactivate ==
    /\ auto.active
    /\ auto' = [auto EXCEPT !.active = FALSE,
                            !.scheduled = IF auto.autoSyncInterval # 0
                                          THEN @ \ {auto.autoSyncInterval} ELSE @,
                            !.autoSyncInterval = 0,
                            !.stopped = @ \/ auto.autoSyncInterval # 0]
    /\ ui' = [ui EXCEPT !.status = "disposed"]
    /\ UNCHANGED <<probe, config, workspaceFolder, faults, now, last,
                   localFiles, localDirs, remote, syncState, inv>>

\* Before activation, under any settings of the repository URL and of the
\* auto-sync switch.
InitAuto ==
    /\ \E url \in {<<"u", "/", "d">>, <<"o", "/", "r">>, <<"u">>, <<>>},
          enabled \in BOOLEAN :
          config = [BaseConfig("useRemote") EXCEPT !.repoUrl = url,
                                                  !.autoSyncEnabled = enabled]
    /\ workspaceFolder = TRUE
    /\ faults = {}
    /\ remote = Tree({PathMcp}, "A")
    /\ localFiles \in {Tree({}, "A"), Tree({LocalMcp}, "B")}
    /\ localDirs = DirsOf(localFiles)
    /\ syncState = getDefaultState
    /\ now = 0
    /\ inv = [i \in Invocations |-> FreshInv]
    /\ last = Summary(FreshInv)
    /\ probe = NoProbe
    /\ ui = [NoUi EXCEPT !.status = "disposed"]
    /\ auto = NoAuto

NextAuto ==
    \/ Activate
    \/ HandleConfigChange
    \/ Deactivate
    \/ \E t \in Targets : AutoSyncTick(t)
    \/ \E i \in Invocations : PullStep(i)
    \/ \E i \in Invocations : FinishStep(i)
    \/ \E i \in Invocations : Report(i)
    \/ ResetTimerFires

SpecAuto == InitAuto /\ [][NextAuto]_vars

----------------------------------------------------------------------------
(* Properties.                                                              *)

\* The sync root of a target, written out.
RootOf(target) ==
    IF target = "global" THEN <<"/", "h", "/">> \o CURSOR_DIR
    ELSE <<"/", "w", "/">> \o CURSOR_DIR

\* The content of the local file at p, Absent when there is none.
LocalAt(p) == IF p \in DOMAIN localFiles THEN localFiles[p] ELSE Absent

\* The setup conditions of an invocation, read from its environment.
BadRepo == parseRepoUrl(config.repoUrl) = NoRepo
NoWorkspace(v) == v.target = "workspace" /\ ~workspaceFolder
NoToken(v) == v.op = "push" /\ config.githubToken = ""
NoTargetDir(v) == v.op = "push" /\ RootOf(v.target) \notin localDirs

\* A per-file record whose processing got as far as the write/push decision.
Decided(e) == e.called \/ ~e.err

\* C1: every SyncResult returned by pull or push has success equal to
\* "errors is empty", whatever happened during the run, a failure while
\* persisting the sync state after the loop included.
C1_SuccessIffNoErrors ==
    \A i \in Invocations :
        inv[i].outcome = "returned" =>
            (inv[i].result.success <=> (Len(inv[i].result.errors) = 0))

\* C2 as stated: when setup fails (unparseable repository identity, no
\* workspace root for a workspace target, missing token for push, missing
\* target directory for push) the operation returns a SyncResult carrying
\* exactly one error with filesProcessed = 0, and no file is processed.
C2_SetupFailureReturnsOneError ==
    \A i \in Invocations :
        LET v == inv[i]
        IN  (v.pc = "done" /\ (BadRepo \/ NoWorkspace(v) \/ NoToken(v) \/ NoTargetDir(v)))
            => /\ v.outcome = "returned"
               /\ Len(v.result.errors) = 1
               /\ v.result.filesProcessed = 0
               /\ v.trace = <<>>

\* C2 amended: an unparseable repository identity makes the construction of
\* the manager throw, so pull or push is never entered and no SyncResult
\* exists; with a parseable identity, a missing workspace root, a missing
\* token (push) or a missing target directory (push) short-circuits the
\* operation: no file is processed, exactly one error is recorded with
\* filesProcessed = 0, and that result is returned with success false and the
\* error persisted as lastError, unless persisting it fails, in which case
\* the operation rejects.
C2_SetupFailureShortCircuits ==
    \A i \in Invocations :
        LET v == inv[i]
        IN  v.pc # "idle" =>
              /\ BadRepo =>
                    /\ v.pc = "done" /\ v.outcome = "threw" /\ ~v.entered
                    /\ v.result = EmptyResult /\ v.trace = <<>>
                    /\ v.writes = 0 /\ v.puts = 0
                    /\ syncState = getDefaultState
              /\ (~BadRepo /\ (NoWorkspace(v) \/ NoToken(v) \/ NoTargetDir(v))) =>
                    /\ v.pc = "done" /\ v.entered
                    /\ v.trace = <<>> /\ v.writes = 0 /\ v.puts = 0
                    /\ v.result.filesProcessed = 0
                    /\ Len(v.result.errors) = 1
                    /\ v.outcome = "returned" =>
                          /\ ~v.result.success
                          /\ syncState.lastError = <<v.result.errors[1]>>
                    /\ v.outcome = "threw" => "state" \in faults

\* C2 witness: a pull into the workspace target with no workspace folder
\* open has returned its one error.
C2_Witness ==
    \E i \in Invocations :
        /\ inv[i].op = "pull" /\ NoWorkspace(inv[i]) /\ ~BadRepo
        /\ inv[i].outcome = "returned"
        /\ Len(inv[i].result.errors) = 1

\* C3: a push attempted with no token configured (the repository identity
\* being parseable) returns exactly one error and filesProcessed = 0, and
\* performs no local scan, no remote read and no create-or-update call.
C3_PushWithoutTokenDoesNothing ==
    \A i \in Invocations :
        LET v == inv[i]
        IN  (v.pc # "idle" /\ NoToken(v) /\ ~BadRepo) =>
              /\ v.pc = "done"
              /\ v.outcome = "returned" \/ "state" \in faults
              /\ Len(v.result.errors) = 1
              /\ v.result.filesProcessed = 0
              /\ v.scans = 0 /\ v.reads = 0 /\ v.puts = 0
              /\ v.trace = <<>>

\* C3 witness: a push without token has returned, local files being there
\* to scan and remote files to read.
C3_Witness ==
    \E i \in Invocations :
        /\ NoToken(inv[i]) /\ inv[i].outcome = "returned"
        /\ inv[i].target = "global"
        /\ LocalAt(RootOf("global") \o <<"/">> \o PathMcp) # Absent
        /\ remote # <<>>

\* C4: in pull, the remote content of a fetched file is written to its
\* local path exactly when there is no conflict (local file absent, or
\* local content identical) or the resolution is useRemote; when the
\* resolution is keepLocal or skip the local file's content is unchanged.
C4_PullWritesExactlyWhenNoConflictOrUseRemote ==
    \A i \in Invocations :
      inv[i].op = "pull" =>
        \A k \in 1..Len(inv[i].trace) :
          LET e == inv[i].trace[k]
              noConflict == e.localBefore = Absent \/ e.localBefore = e.remoteBefore
              wanted == noConflict \/ e.res = "useRemote"
              localNow == LocalAt(mapToLocalPath(e.path, RootOf(inv[i].target)))
          IN  /\ Decided(e) => (e.called <=> wanted)
              /\ e.acted => e.called
              /\ (e.called /\ ~e.err) => (e.acted /\ localNow = e.remoteBefore)
              /\ ~e.acted => localNow = e.localBefore
              /\ e.res \in {"keepLocal", "skip"} => (~e.called /\ localNow = e.localBefore)

\* C4 witness: one pull has skipped a conflicting file, leaving it alone,
\* overwritten another on useRemote, and both differed from the remote.
C4_Witness ==
    \E i \in Invocations :
      /\ inv[i].op = "pull"
      /\ \E j, k \in 1..Len(inv[i].trace) :
            /\ inv[i].trace[j].res = "skip" /\ ~inv[i].trace[j].acted
            /\ inv[i].trace[j].localBefore = "B"
            /\ inv[i].trace[k].res = "useRemote" /\ inv[i].trace[k].acted
            /\ inv[i].trace[k].localBefore = "B"

\* C5: in push, a create-or-update call is issued for a local file only when
\* no remote copy exists, the remote content is identical to the local
\* content, or the resolver returned keepLocal; when a remote copy exists
\* with different content and the resolution is useRemote or skip, or none
\* was obtained, nothing is pushed for that file.
C5_PushOnlyWhenNoConflictOrKeepLocal ==
    \A i \in Invocations :
      inv[i].op = "push" =>
        \A k \in 1..Len(inv[i].trace) :
          LET e == inv[i].trace[k]
          IN  e.called => \/ e.remoteBefore = Absent
                          \/ e.remoteBefore = e.localBefore
                          \/ e.res = "keepLocal"

\* The conflicts a run should have recorded: one per record of a file that
\* existed on both sides with different contents, in processing order.
Differing(e) ==
    e.localBefore # Absent /\ e.remoteBefore # Absent /\ e.localBefore # e.remoteBefore

\* C6: in pull and push the resolver is invoked for a path, and a Conflict
\* recorded for it, exactly when the file exists on both sides and the two
\* contents differ; each such path yields exactly one entry in conflicts,
\* in processing order, carrying the resolution that was returned.
C6_ConflictExactlyWhenBothExistAndDiffer ==
    \A i \in Invocations :
      LET v == inv[i]
          decided == SelectSeq(v.trace, Decided)
          expected == SelectSeq(decided, Differing)
      IN  /\ \A k \in 1..Len(decided) :
                (decided[k].res # "none") <=> Differing(decided[k])
          /\ Len(v.result.conflicts) = Len(expected)
          /\ \A k \in 1..Len(expected) :
                /\ v.result.conflicts[k].path = expected[k].path
                /\ v.result.conflicts[k].resolution = expected[k].res

\* C7: under policy keepLocal the resolver returns keepLocal and under
\* policy useRemote it returns useRemote, for every path, every pair of
\* contents and both directions, and no prompt or diff view is shown.
C7_FixedPoliciesReturnThemselves ==
    config.conflictResolution \in {"keepLocal", "useRemote"} =>
      \A i \in Invocations :
        /\ inv[i].pc \notin {"prompt1", "prompt2"}
        /\ inv[i].prompts = 0 /\ inv[i].diffs = 0 /\ inv[i].answers = <<>>
        /\ \A k \in 1..Len(inv[i].result.conflicts) :
              inv[i].result.conflicts[k].resolution = config.conflictResolution
        /\ \A k \in 1..Len(inv[i].trace) :
              inv[i].trace[k].res \in {"none", config.conflictResolution}

\* C7 witness: a push under keepLocal has resolved a conflict.
C7_Witness ==
    \E i \in Invocations :
      /\ config.conflictResolution = "keepLocal"
      /\ inv[i].op = "push"
      /\ Len(inv[i].result.conflicts) > 0
      /\ inv[i].result.conflicts[1].localContent # inv[i].result.conflicts[1].remoteContent

\* The resolution the dialog's answers stand for, by direction: the local
\* option is Keep Local on pull and Push Local on push, the remote option
\* Use Remote on pull and Keep Remote on push.
AnswerMeans(answer, op) ==
    IF answer \in {"undefined", "Skip"} THEN "skip"
    ELSE IF (op = "pull" /\ answer = "Keep Local") \/ (op = "push" /\ answer = "Push Local")
    THEN "keepLocal"
    ELSE IF (op = "pull" /\ answer = "Use Remote") \/ (op = "push" /\ answer = "Keep Remote")
    THEN "useRemote"
    ELSE "other"

OptionsOf(op) ==
    IF op = "pull" THEN {"Keep Local", "Use Remote"} ELSE {"Push Local", "Keep Remote"}

\* C8: under policy ask the resolver is a two-level decision. The first
\* prompt offers the local option, the remote option, Show Diff and Skip;
\* dismissal or Skip yields skip, the local option keepLocal, the remote
\* option useRemote, in both directions; Show Diff shows the diff once and
\* asks once more with the local and remote options plus Skip, dismissal or
\* Skip yielding skip. There are never more than two prompts, and once the
\* user has answered the resolution is keepLocal, useRemote or skip.
C8_AskIsTwoLevelDecision ==
    config.conflictResolution = "ask" =>
      \A i \in Invocations :
        LET v == inv[i]
            n == Len(v.result.conflicts)
        IN  /\ v.prompts <= 2 /\ v.diffs <= 1 /\ Len(v.answers) <= 2
            /\ v.pc = "prompt1" =>
                  /\ v.prompts = 1 /\ v.diffs = 0 /\ v.answers = <<>>
                  /\ v.cur.offered = OptionsOf(v.op) \cup {"Show Diff", "Skip"}
            /\ v.pc = "prompt2" =>
                  /\ v.prompts = 2 /\ v.diffs = 1 /\ v.answers = <<"Show Diff">>
                  /\ v.cur.offered = OptionsOf(v.op) \cup {"Skip"}
            /\ (v.pc \notin {"prompt1", "prompt2"} /\ v.answers # <<>>) =>
                  /\ n > 0
                  /\ v.result.conflicts[n].resolution \in {"keepLocal", "useRemote", "skip"}
                  /\ Len(v.answers) = 1 =>
                        v.result.conflicts[n].resolution = AnswerMeans(v.answers[1], v.op)
                  /\ Len(v.answers) = 2 =>
                        /\ v.answers[1] = "Show Diff"
                        /\ v.result.conflicts[n].resolution = AnswerMeans(v.answers[2], v.op)
            /\ \A k \in 1..n :
                  v.result.conflicts[k].resolution \in {"keepLocal", "useRemote", "skip"}

\* C8 witness: in a push, the user looked at the diff and then chose the
\* remote option, which resolved the conflict as useRemote.
C8_Witness ==
    \E i \in Invocations :
      /\ config.conflictResolution = "ask"
      /\ inv[i].op = "push"
      /\ inv[i].answers = <<"Show Diff", "Keep Remote">>
      /\ inv[i].pc = "loop"
      /\ inv[i].result.conflicts[Len(inv[i].result.conflicts)].resolution = "useRemote"

\* C9: pulling twice in succession with policy useRemote and no remote or
\* local change in between (and no failure of the environment) yields zero
\* conflicts on the second pull and the same filesProcessed on both.
C9_SecondPullIsQuiet ==
    \A i \in Invocations :
      LET v == inv[i]
      IN  ( /\ config.conflictResolution = "useRemote"
            /\ v.op = "pull" /\ v.pc = "done" /\ v.outcome = "returned" /\ ~v.injected
            /\ last.op = "pull" /\ last.outcome = "returned" /\ ~last.injected
            /\ last.target = v.target )
          => /\ v.result.conflicts = <<>>
             /\ v.result.filesProcessed = last.filesProcessed

\* C9 witness: the first pull overwrote conflicting local files, the second
\* processed as many files and met no conflict.
C9_Witness ==
    \E i \in Invocations :
      /\ config.conflictResolution = "useRemote"
      /\ inv[i].op = "pull" /\ inv[i].outcome = "returned" /\ ~inv[i].injected
      /\ last.op = "pull" /\ last.outcome = "returned" /\ last.target = inv[i].target
      /\ last.conflicts > 0 /\ last.filesProcessed > 1
      /\ inv[i].result.filesProcessed = last.filesProcessed
      /\ inv[i].result.conflicts = <<>>

\* C10: when the local target is empty, a pull writes every remote file
\* that matches the configured patterns to its place under the target (the
\* rules file: under the target or beside it), reports filesProcessed equal
\* to the number of those files and reports no conflicts.
C10_PullIntoEmptyTargetWritesAllMatching ==
    \A i \in Invocations :
      LET v == inv[i]
          matching == {p \in DOMAIN remote : matchesPatterns(p, config.filesToSync)}
          root == RootOf(v.target)
      IN  ( /\ v.op = "pull" /\ v.pc = "done" /\ v.outcome = "returned" /\ ~v.injected
            /\ v.cleanTarget )
          => /\ v.result.filesProcessed = Cardinality(matching)
             /\ v.result.conflicts = <<>>
             /\ \A p \in matching :
                   \/ LocalAt(root \o <<"/">> \o p) = remote[p]
                   \/ /\ p = RULES_FILE
                      /\ LocalAt(PathDirname(root) \o <<"/">> \o p) = remote[p]

\* The local place of a remote-relative path under a target, written out:
\* the rules file lives beside the sync root, every other file below it.
ExpectedLocal(target, p) ==
    IF p = RULES_FILE
    THEN (IF target = "global" THEN <<"/", "h", "/">> ELSE <<"/", "w", "/">>) \o p
    ELSE RootOf(target) \o <<"/">> \o p

\* C11: under policy useRemote, for every remote file selected by a pull
\* whose local copy exists with different content (the rules file, whose
\* local copy lives in the sync root's parent, included), the pull (no call
\* of it failing) records exactly one conflict for that path with resolution
\* useRemote, and the local file holds the remote content afterwards.
C11_UseRemoteOverwritesAndRecords ==
    \A i \in Invocations :
      LET v == inv[i]
      IN  ( /\ config.conflictResolution = "useRemote"
            /\ v.op = "pull" /\ v.pc = "done" /\ v.outcome = "returned" /\ ~v.injected )
          => \A k \in 1..Len(v.keys) :
               LET p == v.keys[k]
                   here == {j \in 1..Len(v.trace) : v.trace[j].path = p}
                   recs == {j \in 1..Len(v.result.conflicts) : v.result.conflicts[j].path = p}
               IN  /\ Cardinality(here) = 1
                   /\ \A j \in here :
                        Differing(v.trace[j]) =>
                          /\ Cardinality(recs) = 1
                          /\ \A c \in recs : v.result.conflicts[c].resolution = "useRemote"
                          /\ LocalAt(ExpectedLocal(v.target, p)) = remote[p]

\* C11 witness: a pull under useRemote met a different rules file beside the
\* sync root and a different file below it, and replaced both.
C11_Witness ==
    \E i \in Invocations :
      /\ config.conflictResolution = "useRemote"
      /\ inv[i].op = "pull" /\ inv[i].outcome = "returned" /\ ~inv[i].injected
      /\ \E j, k \in 1..Len(inv[i].trace) :
            /\ inv[i].trace[j].path = RULES_FILE /\ inv[i].trace[j].localBefore = "B"
            /\ inv[i].trace[k].path = PathMcp /\ inv[i].trace[k].localBefore = "B"
      /\ LocalAt(<<"/", "h", "/">> \o RULES_FILE) = "A"
      /\ Len(inv[i].result.conflicts) >= 2

\* C12: with the default four-entry pattern list the rules file is still
\* selected after pattern normalization: a pull fetches a remote
\* .cursorrules at the sub-path root, and a push scan collects an existing
\* local .cursorrules beside the sync root.
C12_DefaultPatternsSelectRulesFile ==
    \A i \in Invocations :
      LET v == inv[i]
          selected == \E k \in 1..Len(v.keys) : v.keys[k] = RULES_FILE
      IN  ( /\ config.filesToSync = <<RULES_FILE, PatRules, PatMcp, PatPrompts>>
            /\ v.pc \in {"loop", "done"} /\ v.entered /\ ~v.setupFailed /\ ~v.injected )
          => /\ (v.op = "pull" /\ RULES_FILE \in DOMAIN remote) => selected
             /\ (v.op = "push" /\ LocalAt(ExpectedLocal(v.target, RULES_FILE)) # Absent)
                   => selected

\* C17: listDirectory returns an empty list when the listing call answers
\* not-found and fails with a transport error for any other non-success
\* status; over a tree whose root listing is not-found the traversal
\* returns an empty map without raising, so a pull of it succeeds with
\* filesProcessed = 0.
C17_NotFoundListingIsEmpty ==
    \A i \in Invocations :
      LET v == inv[i]
          listingError == \E k \in 1..Len(v.result.errors) :
                             v.result.errors[k] = Err(NoPath, "GitHub API error")
      IN  (v.op = "pull" /\ v.pc = "done" /\ ~BadRepo /\ ~NoWorkspace(v)) =>
            /\ (DOMAIN remote = {} /\ ~v.injected) =>
                  /\ v.outcome = "returned" /\ v.result.success
                  /\ v.result.filesProcessed = 0 /\ v.result.errors = <<>>
                  /\ v.keys = <<>> /\ v.trace = <<>>
            /\ listingError =>
                  /\ "list" \in faults
                  /\ ~v.result.success /\ v.result.filesProcessed = 0 /\ v.trace = <<>>
            /\ (v.injected /\ faults = {"list"}) => listingError

\* C17 witness: the pull of an empty remote tree has succeeded with nothing
\* processed, local files being there.
C17_Witness ==
    \E i \in Invocations :
      /\ inv[i].op = "pull" /\ inv[i].pc = "done" /\ inv[i].outcome = "returned"
      /\ DOMAIN remote = {} /\ DOMAIN localFiles # {}
      /\ inv[i].result.success /\ inv[i].result.filesProcessed = 0

\* C19: across any sequence of pull and push invocations the persisted
\* lastError holds the error message of the most recent invocation that had
\* errors and stays set until a later sync completes with zero errors, which
\* clears it; after each invocation completes (returns its result),
\* lastError is none exactly when that invocation had no errors.
C19_LastErrorFollowsLatestInvocation ==
    \A i \in Invocations :
      LET v == inv[i]
      IN  /\ (v.pc = "done" /\ v.outcome = "returned") =>
                /\ (syncState.lastError = NoError) <=> (v.result.errors = <<>>)
                /\ v.result.errors # <<>> =>
                      syncState.lastError \in {v.result.errors, <<v.result.errors[1]>>}
          /\ v.pc \in {"loop", "prompt1", "prompt2"} =>
                /\ last.op = "none" => syncState.lastError = NoError
                /\ last.outcome = "returned" =>
                      ((syncState.lastError = NoError) <=> (last.errors = 0))

\* C19 witness: an invocation with errors was followed by one without, and
\* the stored error is cleared.
C19_Witness ==
    \E i \in Invocations :
      /\ inv[i].pc = "done" /\ inv[i].outcome = "returned"
      /\ inv[i].result.errors = <<>>
      /\ last.outcome = "returned" /\ last.errors > 0
      /\ syncState.lastError = NoError

PerFileError(x) == x.path # NoPath

\* C20: a failure while processing one file in the pull or push loop (local
\* I/O failure, failed create-or-update call) is caught, appended to errors
\* as '<path>: <message>', and the loop goes on to process every remaining
\* file; errors holds one entry per failing file in processing order.
C20_PerFileFailureDoesNotStopLoop ==
    \A i \in Invocations :
      LET v == inv[i]
          failing == SelectSeq(v.trace, LAMBDA e : e.err)
          perFile == SelectSeq(v.result.errors, PerFileError)
      IN  (v.entered /\ ~v.setupFailed /\ v.pc # "idle") =>
            /\ Len(perFile) = Len(failing)
            /\ \A k \in 1..Len(perFile) :
                  /\ perFile[k].path = failing[k].path
                  /\ v.result.errors[k] = perFile[k]
            /\ \A k \in 1..Len(v.trace) : v.trace[k].path = v.keys[k]
            /\ v.pc = "loop" => Len(v.trace) + Len(v.queue) = Len(v.keys)
            /\ v.pc = "done" => Len(v.trace) = Len(v.keys)

\* C20 witness: the first file of a pull failed and the second was written.
C20_Witness ==
    \E i \in Invocations :
      /\ inv[i].op = "pull" /\ inv[i].pc = "done" /\ Len(inv[i].trace) = 2
      /\ inv[i].trace[1].err /\ inv[i].trace[2].acted
      /\ Len(inv[i].result.errors) = 1
      /\ inv[i].result.filesProcessed = 1

\* C13: the directory-descent test of the remote traversal never
\* under-descends: whenever a file below a remote directory matches the
\* normalized pattern list, the traversal descends into that directory and
\* its ancestors, so it returns every matching remote file.
C13_TraversalReturnsEveryMatchingFile ==
    probe.fn = "fetchAllFiles" =>
        \A p \in DOMAIN remote :
            matchesPatterns(p, normalizedPatterns(probe.a)) =>
                \E k \in 1..Len(probe.out) : probe.out[k] = p

RECURSIVE GlobFrom(_, _, _, _)
\* The glob dialect: whether pattern characters i.. match the characters
\* j.. of s up to its end. A literal matches itself, '?' one character, '*'
\* a run without '/', '**' any run.
GlobFrom(pat, i, s, j) ==
    IF i > Len(pat) THEN j > Len(s)
    ELSE IF pat[i] = "*" /\ i < Len(pat) /\ pat[i + 1] = "*"
         THEN \E k \in j..(Len(s) + 1) : GlobFrom(pat, i + 2, s, k)
    ELSE IF pat[i] = "*"
         THEN \E k \in j..(Len(s) + 1) :
                  /\ \A m \in j..(k - 1) : s[m] # "/"
                  /\ GlobFrom(pat, i + 1, s, k)
    ELSE IF pat[i] = "?"
         THEN j <= Len(s) /\ GlobFrom(pat, i + 1, s, j + 1)
    ELSE j <= Len(s) /\ s[j] = pat[i] /\ GlobFrom(pat, i + 1, s, j + 1)

\* C14: matches(path, pattern) is an anchored glob match in which literal
\* characters match only themselves, '?' matches exactly one character, a
\* single '*' any run of characters without '/', and '**' any run of
\* characters; '**' matches every path, and 'rules/**' matches rules/a.mdc
\* and rules/sub/b.mdc but not rule/a.mdc.
C14_MatcherIsAnchoredGlob ==
    probe.fn = "matchPattern" =>
        (probe.out <=> GlobFrom(probe.b, 1, probe.a, 1))


\* C15: a pattern without wildcard matches a path if and only if the path
\* equals the pattern, and matchesAny with an empty pattern list is false
\* for every path.
C15_PlainPatternMatchesOnlyItself ==
    /\ ( /\ probe.fn = "matchPattern"
         /\ \A k \in 1..Len(probe.b) : probe.b[k] \notin {"*", "?"} ) =>
          (probe.out <=> (probe.a = probe.b))
    /\ (probe.fn = "matchesPatterns" /\ probe.b = <<>>) => ~probe.out

C18_ParseReturnsOwnerAndRepo ==
    probe.fn = "parseRepoUrl" =>
        /\ \A o \in {<<"o">>, <<"o", "w">>}, r \in {<<"r">>, <<"r", "p">>} :
              probe.a \in UrlsOf(o, r) => probe.out = [owner |-> o, repo |-> r]
        /\ probe.a \in {<<>>, <<"u">>} => probe.out = NoRepo

\* The paths whose raw fetch the environment failed during an invocation.
FailedRaw(v) == {f.path : f \in {g \in v.failed : g.call = "raw"}}

\* C21: in fetchAllMatching a failed raw fetch of one matching file does not
\* abort the traversal: that file is left out of the returned map, every
\* other matching file the traversal reaches is still fetched and returned
\* in order, and the pull that uses the map reports no error for the file
\* left out.
C21_FailedFetchOmitsOneFile ==
    \A i \in Invocations :
      LET v == inv[i]
          reached == processDirectory(<<>>, normalizedPatterns(config.filesToSync))
          kept == SelectSeq(reached, LAMBDA p : p \notin FailedRaw(v))
      IN  (v.op = "pull" /\ v.entered /\ ~v.setupFailed /\ v.pc # "idle") =>
            /\ v.keys = kept
            /\ \A k \in 1..Len(v.result.errors) : v.result.errors[k].path \notin FailedRaw(v)
            /\ \A k \in 1..Len(v.trace) : v.trace[k].path \notin FailedRaw(v)
            /\ (v.pc = "done" /\ faults = {"raw"}) =>
                  /\ v.outcome = "returned" /\ v.result.success
                  /\ v.result.errors = <<>>
                  /\ Len(v.trace) = Len(kept)

\* C21 witness: the fetch of the first selected file failed, the second was
\* fetched and written, and the pull succeeded without an error.
C21_Witness ==
    \E i \in Invocations :
      /\ inv[i].op = "pull" /\ inv[i].pc = "done" /\ inv[i].outcome = "returned"
      /\ FailedRaw(inv[i]) = {PathMcp}
      /\ inv[i].keys = <<PathRulesA>>
      /\ inv[i].result.filesProcessed = 1
      /\ inv[i].result.errors = <<>> /\ inv[i].result.success

\* C22: every remote call that fails after the setup preconditions of a
\* pull or push (directory listing, raw file fetch, revision fetch,
\* create-or-update) is surfaced as a per-file error in the SyncResult and
\* the loop continues with the next file; only the operation-level
\* preconditions abort the operation.
C22_RemoteFailureIsPerFileError ==
    \A i \in Invocations :
      LET v == inv[i]
          precondition == BadRepo \/ NoWorkspace(v) \/ NoToken(v) \/ NoTargetDir(v)
      IN  ( /\ v.pc = "done" /\ v.entered /\ ~precondition
            /\ faults \subseteq {"list", "raw", "api"} )
          => /\ ~v.setupFailed
             /\ Len(v.trace) = Len(v.keys)
             /\ \A f \in v.failed :
                   \E k \in 1..Len(v.result.errors) :
                       /\ PerFileError(v.result.errors[k])
                       /\ f.path # NoPath => v.result.errors[k].path = f.path

\* C23 as stated: when a pull or push aborts on a setup error, the
\* persisted state changes only in lastError, which is set to that error;
\* lastSyncedAt, lastSyncTarget, lastSyncDirection and lastSyncFiles keep
\* the values they had before the invocation.
C23_SetupAbortRecordsOnlyError ==
    [][\A i \in Invocations :
          (now' = now + 1 /\ inv'[i].seq = now' /\ inv'[i].setupFailed) =>
             /\ inv'[i].result.errors # <<>>
             /\ syncState' = [syncState EXCEPT !.lastError = <<inv'[i].result.errors[1]>>]]_vars

\* C23 amended: with a parseable repository identity, when pull or push
\* aborts before its loop and returns its result, the persisted state
\* changes only in lastError, which is set to the one error of the result;
\* the other four fields keep the values they had before the invocation.
\* With an unparseable identity the manager cannot be constructed, pull or
\* push is never entered and the persisted state does not change at all,
\* lastError included; the same holds when the update of lastError fails
\* and the operation rejects.
C23_SetupAbortKeepsSyncRecord ==
    [][\A i \in Invocations :
          (now' = now + 1 /\ inv'[i].seq = now' /\ inv'[i].setupFailed) =>
             /\ ~inv'[i].entered => (BadRepo /\ syncState' = syncState)
             /\ (inv'[i].entered /\ inv'[i].outcome = "returned") =>
                   /\ Len(inv'[i].result.errors) = 1
                   /\ syncState' =
                         [syncState EXCEPT !.lastError = <<inv'[i].result.errors[1]>>]
             /\ (inv'[i].entered /\ inv'[i].outcome = "threw") =>
                   ("state" \in faults /\ syncState' = syncState)]_vars

\* C23 witness: after a pull into the global target, a pull into the
\* workspace target aborted for want of a workspace folder: the record still
\* names the first pull, and the error of the second.
C23_Witness ==
    \E i \in Invocations :
      /\ inv[i].op = "pull" /\ inv[i].target = "workspace"
      /\ inv[i].setupFailed /\ inv[i].entered /\ inv[i].outcome = "returned"
      /\ syncState.lastSyncedAt > 0 /\ syncState.lastSyncedAt < now
      /\ syncState.lastSyncTarget = "global"
      /\ syncState.lastSyncDirection = "pull"
      /\ syncState.lastSyncFiles # <<>>
      /\ syncState.lastError = <<Err(NoPath, "No workspace folder open")>>

\* C24: after a pull or push that gets past setup (the store accepting the
\* update), the persisted state holds a new timestamp, the invocation's
\* target, its direction, and lastSyncFiles equal to the full list of paths
\* considered, those kept, skipped or failing included, whether or not
\* per-file errors occurred; lastError holds the joined errors, if any.
\* The paths considered are, for a pull, the remote files the traversal
\* reached and fetched, for a push the local files the scan collected.
C24_StateRecordsWholeInvocation ==
    \A i \in Invocations :
      LET v == inv[i]
          considered ==
            IF v.op = "pull"
            THEN SelectSeq(processDirectory(<<>>, normalizedPatterns(config.filesToSync)),
                           LAMBDA p : p \notin FailedRaw(v))
            ELSE MapKeys(collectLocalFiles(RootOf(v.target), config.filesToSync))
      IN  (v.pc = "done" /\ v.entered /\ ~v.setupFailed /\ "state" \notin faults) =>
            /\ v.outcome = "returned"
            /\ syncState.lastSyncedAt = now /\ now > 0
            /\ syncState.lastSyncTarget = v.target
            /\ syncState.lastSyncDirection = v.op
            /\ syncState.lastSyncFiles = considered
            /\ \A k \in 1..Len(v.trace) : v.trace[k].path \in Range(syncState.lastSyncFiles)
            /\ Len(v.trace) = Len(syncState.lastSyncFiles)
            /\ syncState.lastError = (IF v.result.errors = <<>> THEN NoError
                                      ELSE v.result.errors)

\* C24 witness: a pull whose first file failed and whose second was written
\* has recorded both paths, and the error.
C24_Witness ==
    \E i \in Invocations :
      /\ inv[i].op = "pull" /\ inv[i].pc = "done" /\ inv[i].outcome = "returned"
      /\ Len(inv[i].trace) = 2
      /\ inv[i].trace[1].err /\ inv[i].trace[2].acted
      /\ syncState.lastSyncFiles = <<inv[i].trace[1].path, inv[i].trace[2].path>>
      /\ syncState.lastSyncedAt = now
      /\ syncState.lastError # NoError

\* C25: the client's push of one file first attempts fetchWithRevision; the
\* create-or-update call carries a revision identifier exactly when the
\* remote file currently exists, and then it is the identifier of that
\* file; when the file does not exist the call carries none and creates
\* the file.
C25_RevisionCarriedWhenFileExists ==
    \A i \in Invocations :
      inv[i].op = "push" =>
        \A k \in 1..Len(inv[i].trace) :
          LET e == inv[i].trace[k]
              putFailed == [call |-> "put", path |-> e.path] \in inv[i].failed
          IN  e.called =>
                /\ (e.sha # "undefined") <=> (e.remoteBefore # Absent)
                /\ e.remoteBefore # Absent => e.sha = Sha(e.remoteBefore)
                /\ (e.remoteBefore = Absent /\ ~putFailed) =>
                      (e.acted /\ e.path \in DOMAIN remote)

\* C26: the remote traversal and the local scan select files identically:
\* with the same configured pattern list, a relative path is selected on
\* pull if and only if the same relative path is selected on push.
C26_PullAndPushSelectSamePaths ==
    probe.fn = "select" => Range(probe.b) = Range(probe.out)


\* C27: there is no mutual exclusion between invocations. While one pull is
\* in flight (in its loop or at a conflict prompt) the start of a second
\* one is not held back: nothing rejects or queues it, and a pull started
\* during another invocation enters pull like any other.
C27_NothingRejectsOverlappingPull ==
    \A i \in Invocations : \A j \in Invocations \ {i} :
       /\ ( /\ inv[i].pc \in InFlight
            /\ inv[j].pc \in {"idle", "done"}
            /\ now < MaxOps )
          => CanStart(j)
       /\ (inv[j].overlap /\ inv[j].op = "pull") => inv[j].entered

\* Two pulls of one target, the second started while the first was in
\* flight, have both written the same local file.
C27_Witness ==
    /\ inv[1].op = "pull" /\ inv[2].op = "pull"
    /\ inv[1].target = inv[2].target
    /\ inv[1].seq < inv[2].seq /\ inv[2].overlap
    /\ \E k \in 1..Len(inv[1].trace), n \in 1..Len(inv[2].trace) :
          /\ inv[1].trace[k].acted /\ inv[2].trace[n].acted
          /\ inv[1].trace[k].path = inv[2].trace[n].path


\* C28: the persisted sync state is one record shared by all invocations
\* and updated by read-merge-write with no concurrency check: the update of
\* an ending invocation is merged into the record as it is stored at that
\* moment, whoever wrote it (an abort before the loop sets lastError alone,
\* a completed loop sets all five fields), so that each field holds the
\* value of the last update that set it; no other step changes the record.
C28_UpdateMergesIntoStoredRecord ==
    [][/\ \A i \in Invocations :
            (inv'[i] # inv[i] /\ inv'[i].pc = "done") =>
              LET v == inv'[i]
              IN  IF v.outcome = "threw" THEN syncState' = syncState
                  ELSE IF v.setupFailed
                  THEN syncState' = [syncState EXCEPT !.lastError = <<v.result.errors[1]>>]
                  ELSE syncState' =
                         [syncState EXCEPT
                            !.lastSyncedAt = now',
                            !.lastSyncTarget = v.target,
                            !.lastSyncDirection = v.op,
                            !.lastSyncFiles = v.keys,
                            !.lastError = IF Len(v.result.errors) > 0
                                          THEN JoinErrors(v.result.errors) ELSE NoError]
       /\ (\A i \in Invocations : inv'[i] = inv[i] \/ inv'[i].pc # "done") => syncState' = syncState]_vars

\* A pull of the workspace target started while a pull of the global target
\* was in flight and aborted for want of a workspace folder; the earlier
\* pull then completed: the record holds its five fields, the error of the
\* other invocation included in what it replaced.
C28_Witness ==
    /\ inv[1].op = "pull" /\ inv[1].target = "global"
    /\ inv[1].pc = "done" /\ inv[1].outcome = "returned" /\ ~inv[1].setupFailed
    /\ inv[2].overlap /\ inv[2].setupFailed /\ inv[2].outcome = "returned"
    /\ inv[1].seq < inv[2].seq
    /\ syncState.lastSyncTarget = "global"
    /\ syncState.lastSyncFiles = inv[1].keys
    /\ syncState.lastError = NoError

\* C29: during a push, the remote content that a create-or-update call
\* replaces is the content that was compared with the local content in that
\* file's conflict check (nothing when the file was found absent), also
\* when another writer changes the file between the check and the update.
C29_UpdateReplacesComparedContent ==
    \A i \in Invocations :
      (inv[i].op = "push" /\ faults = {}) =>
        \A k \in 1..Len(inv[i].trace) :
          LET e == inv[i].trace[k]
          IN  e.acted => e.replaced = e.seen

\* C30: while a pull or push started by a command or by the auto-sync timer
\* is in flight the status indicator stays 'syncing' until that invocation's
\* result is reported, and the delayed reset to idle that an earlier success
\* scheduled never replaces the syncing state of a later invocation or a
\* later error state.
C30_SyncingShownUntilReported ==
    /\ [](\A i \in Invocations : ui.awaiting[i] => ui.status = "syncing")
    /\ [][ui'.timers < ui.timers => ui.status \notin {"syncing", "error"}]_vars

\* C31: after any sequence of activation, configuration changes and
\* deactivation at most one auto-sync interval timer is scheduled, and none
\* is scheduled after deactivate, or after a configuration change that
\* leaves auto-sync disabled or the repository not configured.
C31_AtMostOneIntervalTimer ==
    /\ Cardinality(auto.scheduled) <= 1
    /\ ~auto.active => auto.scheduled = {}
    /\ (~config.autoSyncEnabled \/ ~isConfigured(config.repoUrl)) => auto.scheduled = {}

\* The extension was activated with auto-sync on, a configuration change
\* replaced the interval timer, and deactivate has cleared it.
C31_Witness ==
    /\ auto.replaced /\ auto.stopped
    /\ ~auto.active /\ auto.scheduled = {}

\* C32: the local scan returns one entry per selected local file, no two
\* distinct local files sharing a key; in particular the key '.cursorrules'
\* carries the content of the root-level rules file beside the sync root,
\* also when a file named .cursorrules exists inside the sync root.
C32_ScanKeepsEachSelectedFile ==
    probe.fn = "collectLocalFiles" =>
      LET np == normalizedPatterns(probe.a)
          under == {p \in DOMAIN localFiles : StartsWith(p, GlobalRoot \o <<"/">>)}
          selected ==
            {p \in under : matchesPatterns(SubSeq(p, Len(GlobalRoot) + 2, Len(p)), np)}
            \cup {p \in {LocalRulesFile} \cap DOMAIN localFiles :
                     matchesPatterns(RULES_FILE, np)}
      IN  /\ Len(probe.out) = Cardinality(selected)
          /\ \A k \in 1..Len(probe.out) :
                probe.out[k][1] = RULES_FILE =>
                   /\ LocalRulesFile \in DOMAIN localFiles
                   /\ probe.out[k][2] = localFiles[LocalRulesFile]

\* C33: a pull never issues a create-or-update call and leaves the remote
\* tree as it is; a push never writes, creates or deletes a local file or
\* directory (a missing target directory stays missing): each direction
\* changes only its destination side and the persisted sync state.
C33_EachDirectionKeepsItsSource ==
    [][\A i \in Invocations :
         inv'[i] # inv[i] =>
           /\ inv'[i].op = "pull" => (remote' = remote /\ inv'[i].puts = 0)
           /\ inv'[i].op = "push" =>
                 /\ localFiles' = localFiles /\ localDirs' = localDirs
                 /\ inv'[i].writes = 0]_vars

\* A pull has written local files and the push after it has created or
\* updated remote files.
C33_Witness ==
    /\ inv[1].op = "push" /\ inv[1].pc = "done" /\ inv[1].result.filesProcessed > 0
    /\ last.op = "pull" /\ last.filesProcessed > 0

====
